---- MODULE Spec2Model ----
(***************************************************************************)
(* PPTXFeatureExtractor (src/slide_extractor.py): the extraction pipeline  *)
(* that decodes a presentation package into a normalized feature tree.     *)
(*                                                                         *)
(* The module holds several specifications over one set of variables:      *)
(*   SpecSlide    one slide's content tree: infer_slide_role and           *)
(*                extract_slide_elements                                   *)
(*   SpecFeatures compute_slide_features over an emitted element list      *)
(*   SpecGeom     extract_geometry: normalization and its 6-digit text     *)
(*   SpecRels     the three relationship lookups                           *)
(*   SpecDims     extract_slide_dimensions, calculate_aspect_ratio and the *)
(*                canvas extract_geometry divides by in the same run       *)
(*   SpecColor    extract_color_value and hex_to_rgb                       *)
(*   SpecStats    the colour ranking of compute_global_statistics and the  *)
(*                color_diversity of compute_slide_features                *)
(*   SpecHash     compute_file_hash and compute_slide_hash                 *)
(*   SpecElement  the element extractors, with identifier and fill         *)
(*   SpecText     extract_text_body and extract_paragraph                  *)
(*   SpecParts    the parts a slide refers to: notes and chart             *)
(*   Spec         the driver: main / extract_all_features                  *)
(* A specification leaves the variables of the others at their Idle value. *)
(***************************************************************************)
EXTENDS Integers, Sequences, FiniteSets, TLC

VARIABLES
    slide_root,     \* SpecSlide: the parsed slide part (its spTree, in document order)
    index,          \* SpecSlide: the slide's 1-based index
    semantic_role,  \* SpecSlide: result of infer_slide_role ("" before the call)
    elements_elem,  \* SpecSlide: result of extract_slide_elements
    spc,            \* SpecSlide: position in extract_slide_features
    presentation_xml, \* SpecGeom: ppt/presentation.xml as extract_geometry reads it
    xfrm_elem,      \* SpecGeom: the a:xfrm handed to extract_geometry
    geom,           \* SpecGeom: the geometry record it returns
    elements,       \* SpecFeatures: the slide's emitted <elements> list
    computed,       \* SpecFeatures: the computed_features record
    rels_part,      \* SpecRels: the relationship manifest a lookup reads
    rel_result,     \* SpecRels: the lookup made and what came back
    package,        \* Spec: the input archive and its parts
    pc,             \* Spec: position of the run in main / extract_all_features
    theme_definition, \* Spec: the theme_definition of the output tree
    slide_files,    \* Spec: the list get_slide_files returned
    slides,         \* Spec: the slide entries appended to <slides> so far
    global_statistics, \* Spec: the global_statistics of the output tree
    written,        \* Spec: whether the output file has been written
    exit_code,      \* Spec: the process's exit status (-1 while running)
    dims_part,      \* SpecDims: ppt/presentation.xml as extract_slide_dimensions reads it
    slide_dimensions, \* SpecDims: the slide_dimensions element it returns
    run_geometry,   \* SpecDims: what extract_geometry did in the same run
    color_node,     \* SpecColor: the colour elements under the node, in document order
    color,          \* SpecColor: what extract_color_value returned for it
    rgb,            \* SpecColor: what hex_to_rgb returned for that value
    training_colors, \* SpecStats: the hex of every color element of training_data, in document order
    most_used_colors, \* SpecStats: the most_used_colors element of global_statistics
    color_diversity, \* SpecStats: the color_diversity of the deck's one slide
    pptx_bytes,     \* SpecHash: the bytes of the file at pptx_path
    slide_xmls,     \* SpecHash: the bytes of the slide parts, by slide index
    file_hash,      \* SpecHash: the text of file_hash
    slide_hashes,   \* SpecHash: the text of each slide's slide_hash
    shape_tree,     \* SpecElement: the children of a p:spTree without groups in groups
    element_list,   \* SpecElement: the elements extract_slide_elements appended
    tx_body,        \* SpecText: the a:p paragraphs of a p:txBody, in document order
    text_body,      \* SpecText: the paragraph records extract_text_body returned
    zip_file,       \* SpecParts: the parts of the archive, by name
    slide_part_file, \* SpecParts: the name of the slide part being extracted
    chart_frame,    \* SpecParts: the r:id of the c:chart in a chart graphic frame
    slide_metadata, \* SpecParts: what extract_slide_metadata returned
    chart_element   \* SpecParts: what extract_chart_element returned

slideVars == <<slide_root, index, semantic_role, elements_elem, spc>>
geomVars == <<presentation_xml, xfrm_elem, geom>>
featVars == <<elements, computed>>
relVars == <<rels_part, rel_result>>
runVars == <<pc, theme_definition, slide_files, slides, global_statistics,
             written, exit_code>>
pipeVars == <<package, runVars>>
coreVars == <<slideVars, geomVars, featVars, relVars, pipeVars>>
dimsVars == <<dims_part, slide_dimensions, run_geometry>>
colorVars == <<color_node, color, rgb>>
statsVars == <<training_colors, most_used_colors, color_diversity>>
hashVars == <<pptx_bytes, slide_xmls, file_hash, slide_hashes>>
elemVars == <<shape_tree, element_list>>
textVars == <<tx_body, text_body>>
partVars == <<zip_file, slide_part_file, chart_frame, slide_metadata, chart_element>>
unitVars == <<dimsVars, colorVars, statsVars, hashVars, elemVars, textVars, partVars>>
vars == <<coreVars, unitVars>>

(***************************************************************************)
(* Bounds of the model.                                                    *)
(***************************************************************************)
MaxNodes == 4       \* nodes under one spTree
MaxIndex == 2       \* slide indices tried by SpecSlide
MaxElems == 2       \* top-level elements of a slide in SpecFeatures
MaxRels == 2        \* Relationship entries of a manifest in SpecRels
MaxSlideIds == 2    \* p:sldId entries of the presentation part in Spec
MaxSide == 6        \* small slide sizes 1..MaxSide tried by SpecDims
MaxForms == 2       \* colour elements under one colour node in SpecColor
MaxColors == 3      \* color elements of the training data in SpecStats
MaxRuns == 2        \* runs of equal bytes that make up the hashed file in SpecHash
MaxChildren == 2    \* children of the p:spTree in SpecElement
MaxParagraphs == 2  \* paragraphs of the text body in SpecText
MaxTextRuns == 2    \* runs of one paragraph in SpecText
MaxManifest == 2     \* entries in a slide's relationship manifest

(***************************************************************************)
(* Arithmetic.  Python's integers are unbounded; its floats are IEEE 754   *)
(* doubles: every division, product, sum and difference is the exact       *)
(* result rounded to 53 significant bits, a tie going to the even one, and *)
(* "%.6f" / "%.2f" / "%.1f" write the decimal nearest the double's exact   *)
(* value, again with ties to even.  The model keeps every integer below    *)
(* 2^31: decimals are worked digit by digit and a double is held as the    *)
(* digits of its mantissa.  A normalized value is held as the integer      *)
(* number of millionths that its 6-digit text denotes.                     *)
(***************************************************************************)
Micro == 1000000            \* the unit of a "%.6f" text: 10^-6

Abs(n) == IF n < 0 THEN -n ELSE n
Sign(n) == IF n < 0 THEN -1 ELSE 1
Min(a, b) == IF a <= b THEN a ELSE b
Max(a, b) == IF a >= b THEN a ELSE b

RECURSIVE LongDiv(_, _, _)
\* k more decimal digits of r/d (0 <= r < d): [q |-> the digits, r |-> the
\* remainder], so that r * 10^k = q * d + r'.
LongDiv(r, d, k) ==
    IF k = 0 THEN [q |-> 0, r |-> r]
    ELSE LET prev == LongDiv(r, d, k - 1)
         IN  [q |-> prev.q * 10 + (prev.r * 10) \div d,
              r |-> (prev.r * 10) % d]

(***************************************************************************)
(* Natural numbers of any size as their digits in base 2^15, lowest first, *)
(* the highest digit not 0 (zero is the empty sequence).  Carries are told *)
(* from the digits below rather than handed on one digit at a time, and    *)
(* every operator looks at its operands before anything else: TLC works an *)
(* operand out where it is first looked at, and its stack is short.        *)
(***************************************************************************)
Base == 2^15

\* Digit i of b, 0 outside it.
DigitAt(b, i) == IF 1 <= i /\ i <= Len(b) THEN b[i] ELSE 0

\* The digits without zeros at the high end.
Trim(b) ==
    LET used == {i \in 1..Len(b) : b[i] # 0}
    IN  IF used = {} THEN <<>>
        ELSE SubSeq(b, 1, CHOOSE i \in used : \A j \in used : j <= i)

RECURSIVE DigitsOf(_)
DigitsOf(n) == IF n = 0 THEN <<>> ELSE <<n % Base>> \o DigitsOf(n \div Base)

RECURSIVE NatOf(_)
NatOf(b) == IF b = <<>> THEN 0 ELSE Head(b) + Base * NatOf(Tail(b))

\* a + b: digit i takes a carry when a lower digit sum overflows and every
\* sum between the two is Base - 1.
BAdd(a, b) ==
    LET Sum(i) == DigitAt(a, i) + DigitAt(b, i)
        Carry(i) == IF \E j \in 1..(i - 1) :
                            /\ Sum(j) >= Base
                            /\ \A k \in (j + 1)..(i - 1) : Sum(k) = Base - 1
                    THEN 1 ELSE 0
    IN  IF a = <<>> THEN b
        ELSE IF b = <<>> THEN a
        ELSE Trim([i \in 1..(Max(Len(a), Len(b)) + 1) |->
                        (Sum(i) + Carry(i)) % Base])

\* a - b for b <= a: digit i lends when a lower difference is negative and
\* every difference between the two is 0.
BSub(a, b) ==
    LET Diff(i) == DigitAt(a, i) - DigitAt(b, i)
        Borrow(i) == IF \E j \in 1..(i - 1) :
                            /\ Diff(j) < 0
                            /\ \A k \in (j + 1)..(i - 1) : Diff(k) = 0
                     THEN 1 ELSE 0
    IN  IF b = <<>> THEN a
        ELSE Trim([i \in 1..Len(a) |-> (Diff(i) - Borrow(i) + Base) % Base])

\* a < b
BLess(a, b) ==
    \E i \in 1..Len(b) :
        /\ DigitAt(a, i) < b[i]
        /\ \A k \in (i + 1)..Max(Len(a), Len(b)) : DigitAt(a, k) = DigitAt(b, k)

\* b * Base^k
ShiftDigits(b, k) == IF b = <<>> THEN b ELSE [i \in 1..k |-> 0] \o b

\* a * t for one digit t: the low halves of the digit products, plus their
\* high halves one place up.
MulDigit(a, t) ==
    IF a = <<>> \/ t = 0 THEN <<>>
    ELSE BAdd(Trim([i \in 1..Len(a) |-> (a[i] * t) % Base]),
              ShiftDigits(Trim([i \in 1..Len(a) |-> (a[i] * t) \div Base]), 1))

RECURSIVE MulRange(_, _, _, _)
\* b times the digits lo..hi of a, taken as a number of their own.
MulRange(a, b, lo, hi) ==
    IF lo = hi THEN MulDigit(b, a[lo])
    ELSE LET mid == (lo + hi) \div 2
         IN  BAdd(MulRange(a, b, lo, mid),
                  ShiftDigits(MulRange(a, b, mid + 1, hi), mid + 1 - lo))

\* a * b
BMul(a, b) == IF a = <<>> \/ b = <<>> THEN <<>> ELSE MulRange(a, b, 1, Len(a))

\* The number of binary digits of n.
BitLen(n) ==
    IF n = <<>> THEN 0
    ELSE 15 * (Len(n) - 1) + CHOOSE k \in 1..15 : n[Len(n)] \div 2^(k - 1) = 1

\* n * 2^k
Shl(n, k) ==
    LET skip == k \div 15
        up == 2^(k % 15)
    IN  IF n = <<>> THEN n
        ELSE Trim([i \in 1..(Len(n) + skip + 1) |->
                    ((DigitAt(n, i - skip) * up) % Base)
                        + ((DigitAt(n, i - skip - 1) * up) \div Base)])

\* n \div 2^k
Shr(n, k) ==
    LET skip == k \div 15
        low == 2^(k % 15)
    IN  Trim([i \in 1..(Len(n) - skip) |->
                DigitAt(n, i + skip) \div low
                    + (DigitAt(n, i + skip + 1) % low) * (Base \div low)])

\* Binary digit k of n, the lowest being digit 0.
Bit(n, k) == (DigitAt(n, k \div 15 + 1) \div 2^(k % 15)) % 2

\* n % 2^k = 0
LowZero(n, k) ==
    /\ \A i \in 1..Min(Len(n), k \div 15) : n[i] = 0
    /\ k \div 15 < Len(n) => n[k \div 15 + 1] % 2^(k % 15) = 0

\* n / 2^k (k >= 1) as the nearest whole number, a tie going to the even
\* one: one is added when the highest digit dropped is 1 and either a lower
\* one is not 0 or the lowest digit kept is 1.
RoundShift(n, k) ==
    BAdd(Shr(n, k),
         IF Bit(n, k - 1) = 1 /\ (Bit(n, k) = 1 \/ ~LowZero(n, k - 1))
         THEN <<1>> ELSE <<>>)

\* The largest digit t with b * t <= r, for r < b * Base and the highest
\* digit of b at least Base / 2: the two highest digits of r divided by the
\* highest of b give t or up to 2 more.
QuotientDigit(r, b) ==
    LET guess == Min(Base - 1,
                     (DigitAt(r, Len(b) + 1) * Base + DigitAt(r, Len(b)))
                        \div b[Len(b)])
        fits == {t \in Max(0, guess - 2)..guess : ~BLess(r, MulDigit(b, t))}
    IN  CHOOSE t \in fits : \A u \in fits : u <= t

\* The quotient so far with the digit t below it, and r less t times b.
Reduce(q, r, b, t) == [q |-> Trim(<<t>> \o q), r |-> BSub(r, MulDigit(b, t))]

\* One step of the long division by b: the quotient and remainder so far,
\* and the next digit of the dividend.
DivStep(sofar, digit, b) ==
    IF sofar.r = <<>> /\ digit = 0
    THEN [q |-> ShiftDigits(sofar.q, 1), r |-> <<>>]
    ELSE Reduce(sofar.q, <<digit>> \o sofar.r, b,
                QuotientDigit(<<digit>> \o sofar.r, b))

RECURSIVE DivFrom(_, _, _)
\* The quotient and remainder of the digits i.. of a by b, digit by digit
\* from the top; the highest Len(b) - 1 digits of a are less than b.
DivFrom(a, b, i) ==
    IF i + Len(b) > Len(a) + 1
    THEN [q |-> <<>>, r |-> Trim(SubSeq(a, i, Len(a)))]
    ELSE DivStep(DivFrom(a, b, i + 1), a[i], b)

\* A quotient, and whether nothing is left over.
Exactness(dm) == [q |-> dm.q, exact |-> dm.r = <<>>]

\* a divided by b > 0.  Both are first multiplied by the power of 2 that
\* brings the highest digit of b to Base / 2 or more.
BDiv(a, b) ==
    Exactness(DivFrom(Shl(a, 15 * Len(b) - BitLen(b)),
                      Shl(b, 15 * Len(b) - BitLen(b)), 1))

RECURSIVE ShortDiv(_, _, _)
\* Digits i and up of a divided by the single digit t > 0: the quotient's
\* digits and the remainder as a number.
ShortDiv(a, t, i) ==
    IF i > Len(a) THEN [q |-> <<>>, r |-> 0]
    ELSE LET above == ShortDiv(a, t, i + 1)
             cur == above.r * Base + a[i]
         IN  [q |-> <<cur \div t>> \o above.q, r |-> cur % t]

\* a divided by the single digit t > 0, as BDiv gives it.
BShortDiv(a, t) ==
    LET dm == ShortDiv(a, t, 1) IN [q |-> Trim(dm.q), exact |-> dm.r = 0]

(***************************************************************************)
(* A non-negative double: [m, e] stands for m * 2^e, m of at most 53       *)
(* binary digits and odd (zero is m = <<>>, e = 0).  The values here lie   *)
(* between 10^-12 and 10^4, far from the subnormals and from overflow.     *)
(***************************************************************************)
\* m * 2^e with the factors of 2 moved from m to the exponent.
Canon(m, e) ==
    IF m = <<>> THEN [m |-> m, e |-> 0]
    ELSE LET first == CHOOSE i \in 1..Len(m) :
                        m[i] # 0 /\ \A j \in 1..(i - 1) : m[j] = 0
             k == CHOOSE j \in 0..14 :
                        m[first] % 2^j = 0 /\ m[first] % 2^(j + 1) # 0
         IN  [m |-> Shr(m, 15 * (first - 1) + k), e |-> e + 15 * (first - 1) + k]

\* n * 2^e rounded to 53 significant binary digits: to the nearest, a tie
\* to the even one.
Round(n, e) ==
    IF BitLen(n) <= 53 THEN Canon(n, e)
    ELSE Canon(RoundShift(n, BitLen(n) - 53), e + BitLen(n) - 53)

\* The double of a quotient q * 2^e given to 55 binary digits or more: when
\* something was left over, one more digit tells so.
Sticky(dm, e) ==
    IF dm.exact THEN Round(dm.q, e)
    ELSE Round(BAdd(Shl(dm.q, 1), <<1>>), e - 1)

FOfInt(n) == Canon(DigitsOf(n), 0)
FZero == FOfInt(0)
FOne == FOfInt(1)
FHalf == [m |-> <<1>>, e |-> -1]

\* x * y
FMul(x, y) ==
    IF x = FZero \/ y = FZero THEN FZero
    ELSE Round(BMul(x.m, y.m), x.e + y.e)

\* x + y
FAdd(x, y) ==
    IF x = FZero THEN y
    ELSE IF y = FZero THEN x
    ELSE Round(BAdd(Shl(x.m, x.e - Min(x.e, y.e)), Shl(y.m, y.e - Min(x.e, y.e))),
               Min(x.e, y.e))

\* x < y
FLess(x, y) ==
    IF y = FZero THEN FALSE
    ELSE IF x = FZero THEN TRUE
    ELSE BLess(Shl(x.m, x.e - Min(x.e, y.e)), Shl(y.m, y.e - Min(x.e, y.e)))

\* x - y for y <= x
FSub(x, y) ==
    IF y = FZero THEN x
    ELSE Round(BSub(Shl(x.m, x.e - Min(x.e, y.e)), Shl(y.m, y.e - Min(x.e, y.e))),
               Min(x.e, y.e))

\* abs(x - y)
FAbsDiff(x, y) ==
    FSub(IF FLess(x, y) THEN y ELSE x, IF FLess(x, y) THEN x ELSE y)

\* x / 2
FHalved(x) == IF x = FZero THEN x ELSE [m |-> x.m, e |-> x.e - 1]

\* x / y for y > 0, x shifted far enough for a quotient of 55 digits.  By
\* a power of 2 only the exponent changes.
FDiv(x, y) ==
    IF x = FZero THEN FZero
    ELSE IF y.m = <<1>> THEN [m |-> x.m, e |-> x.e - y.e]
    ELSE Sticky(BDiv(Shl(x.m, Max(0, 55 + BitLen(y.m) - BitLen(x.m))), y.m),
                x.e - y.e - Max(0, 55 + BitLen(y.m) - BitLen(x.m)))

\* float(text) for the 6-digit text of k >= 0 millionths: the double nearest
\* k / 10^6, which is k / 10^6 itself when that is a whole number of 64ths
\* (10^6 = 64 * 15625), and else comes from k * 2^75 divided by 15625.
FloatOfMicro(k) ==
    IF k % (Micro \div 64) = 0 THEN Canon(DigitsOf(k \div (Micro \div 64)), -6)
    ELSE Sticky(BShortDiv(ShiftDigits(DigitsOf(k), 5), Micro \div 64), -81)

\* n * 2^e for e >= 0, and n / 2^-e as the nearest whole number for e < 0.
Scaled(n, e) ==
    IF n = <<>> THEN 0
    ELSE NatOf(IF e >= 0 THEN Shl(n, e) ELSE RoundShift(n, -e))

\* f"{x:.Nf}" in units of 1/scale (scale = 10^N): the multiple of 1/scale
\* nearest the exact value of x, a tie to the even one.
Format(x, scale) ==
    IF x = FZero THEN 0 ELSE Scaled(BMul(DigitsOf(scale), x.m), x.e)

\* The number of binary digits of the integer v >= 0.
IntBits(v) == IF v = 0 THEN 0 ELSE CHOOSE k \in 1..31 : v \div 2^(k - 1) = 1

\* How many binary digits of a quotient by d one step can take: as many as
\* keep a remainder times 2^c below 2^30.
Chunk(d) == CHOOSE c \in 1..15 : d <= 2^(30 - c) /\ (c = 15 \/ d > 2^(29 - c))

RECURSIVE DoubleSide(_, _, _, _)
\* Where the double of a quotient lies: 1 above the quotient, -1 below it,
\* 0 on it.  The quotient's binary digits come from the remainder r < d, a
\* few at a time (d is below 2^29, as LongDiv needs it); count of them are
\* out, the first 1 and what follows it, the latest being last.  After 53
\* the rest is dropped when it is less than half a unit, and a unit is
\* added when it is more; at a half the double is the even neighbour.
DoubleSide(r, d, count, last) ==
    IF r = 0 THEN 0
    ELSE IF count = 53
    THEN IF r < d - r THEN -1
         ELSE IF r > d - r THEN 1
         ELSE IF last = 1 THEN 1 ELSE -1
    ELSE LET c == IF count = 0 THEN Chunk(d) ELSE Min(Chunk(d), 53 - count)
             v == (r * 2^c) \div d
         IN  DoubleSide((r * 2^c) % d, d,
                        IF count = 0 THEN IntBits(v) ELSE count + c, v % 2)

\* The double n / d against the quotient, for 0 <= n and 0 < d: the whole
\* part gives the first binary digits.
QuotientSide(n, d) ==
    IF n < d THEN DoubleSide(n, d, 0, 0)
    ELSE DoubleSide(n % d, d, IntBits(n \div d), (n \div d) % 2)

\* A decimal halfway between down and down + 1 units as its double is
\* written: side tells where the double lies, and on the halfway point
\* itself the even unit is taken.
HalfwayText(down, side) ==
    IF side = 0 THEN down + (down % 2)
    ELSE IF side > 0 THEN down + 1 ELSE down

\* f"{n / d:.6f}" for 0 <= n and 0 < d, in millionths.  The double n / d is
\* within n / d * 2^-53 of the quotient, and a quotient that is not halfway
\* between two millionths is at least 1 / (2 * d * 10^6) away from halfway,
\* which is more for n < 2^31: such a quotient is rounded as it stands.  A
\* quotient exactly halfway goes where its double lies, and to the even
\* millionth when the double is the quotient.
Fmt6Mag(n, d) ==
    LET frac == LongDiv(n % d, d, 6)
        down == (n \div d) * Micro + frac.q
    IN  IF 2 * frac.r > d THEN down + 1
        ELSE IF 2 * frac.r < d THEN down
        ELSE HalfwayText(down, QuotientSide(n, d))

\* f"{n / d:.6f}" for any integer n and d > 0, in millionths.
Fmt6(n, d) == Sign(n) * Fmt6Mag(Abs(n), d)

\* a * b for 0 <= a, b as the pair [hi, lo] with a * b = hi * 10^6 + lo and
\* 0 <= lo < 10^6.
MulPair(a, b) ==
    LET ah == a \div 1000
        al == a % 1000
        bh == b \div 1000
        bl == b % 1000
        mid == ah * bl + al * bh
        low == (mid % 1000) * 1000 + al * bl
    IN  [hi |-> ah * bh + mid \div 1000 + low \div Micro,
         lo |-> low % Micro]

\* Arithmetic on such pairs (all non-negative).
PairZero == [hi |-> 0, lo |-> 0]
PairOne == [hi |-> Micro, lo |-> 0]
PairAdd(p, q) ==
    [hi |-> p.hi + q.hi + (p.lo + q.lo) \div Micro, lo |-> (p.lo + q.lo) % Micro]
PairLe(p, q) == p.hi < q.hi \/ (p.hi = q.hi /\ p.lo <= q.lo)
\* p - q for q <= p.
PairSub(p, q) ==
    IF p.lo >= q.lo THEN [hi |-> p.hi - q.hi, lo |-> p.lo - q.lo]
    ELSE [hi |-> p.hi - q.hi - 1, lo |-> p.lo + Micro - q.lo]
PairAbsDiff(p, q) == IF PairLe(q, p) THEN PairSub(p, q) ELSE PairSub(q, p)
\* k * p for a small integer k >= 0.
PairScale(p, k) ==
    [hi |-> p.hi * k + (p.lo * k) \div Micro, lo |-> (p.lo * k) % Micro]

\* f"{x:.2f}" in hundredths, for the double x that the code holds where
\* exact arithmetic on the 6-digit inputs gives n / d (pairs, 0 <= n <= d,
\* 0 < d).  x is within 10^-13 of n / d; when 100 * n / d is further than
\* that from halfway between two integers the quotient is rounded as it
\* stands, and x is only consulted otherwise.
PairHundredths(n, d, x) ==
    LET n100 == PairScale(n, 100)
        q == CHOOSE h \in 0..100 :
                /\ PairLe(PairScale(d, h), n100)
                /\ h = 100 \/ ~PairLe(PairScale(d, h + 1), n100)
        rem2 == PairScale(PairSub(n100, PairScale(d, q)), 2)
        near == PairLe(PairAbsDiff(rem2, d), [hi |-> d.hi \div Micro + 1, lo |-> 0])
    IN  IF near THEN Format(x, 100)
        ELSE IF PairLe(d, rem2) THEN q + 1 ELSE q

\* f"{n / d:.2f}" for integers n >= 0, d > 0, in hundredths: the quotient
\* rounded as it stands unless it is exactly halfway, as in Fmt6Mag.
Fmt2(n, d) ==
    LET down == (100 * n) \div d
        rem2 == 2 * ((100 * n) % d)
    IN  IF rem2 > d THEN down + 1
        ELSE IF rem2 < d THEN down
        ELSE HalfwayText(down, QuotientSide(n, d))

(***************************************************************************)
(* XML attributes and the presentation part.                               *)
(***************************************************************************)
\* An integer attribute: given with a value, or absent.
Attr(v) == [given |-> TRUE, val |-> v]
NoAttr == [given |-> FALSE, val |-> 0]
\* int(elem.get(name, default))
AttrInt(a, default) == IF a.given THEN a.val ELSE default

DefaultWidth == 9144000
DefaultHeight == 6858000

\* The canvas extract_geometry divides by: the defaults, overwritten from
\* p:sldSz when ppt/presentation.xml can be read and parsed and holds one.
GeometryCanvas(pres) ==
    IF pres.status = "ok" /\ pres.has_sldSz
    THEN [w |-> AttrInt(pres.cx, DefaultWidth),
          h |-> AttrInt(pres.cy, DefaultHeight)]
    ELSE [w |-> DefaultWidth, h |-> DefaultHeight]

(***************************************************************************)
(* extract_geometry: an a:xfrm to a geometry record.  x, y, width, height  *)
(* are the millionths their text denotes; rotation is rot / 60000 degrees  *)
(* as whole degrees and the remaining 60000ths.                            *)
(***************************************************************************)
RotUnit == 60000

NoGeometry ==
    [present |-> FALSE, has_pos |-> FALSE, x |-> 0, y |-> 0,
     has_size |-> FALSE, width |-> 0, height |-> 0,
     rot_deg |-> 0, rot_frac |-> 0, flip_h |-> FALSE, flip_v |-> FALSE]

\* extract_geometry with one uniform scale: y and height divided by the
\* canvas width as well.
extract_geometry_uniform(xfrm, pres) ==
    LET c == GeometryCanvas(pres)
        rot == AttrInt(xfrm.rot, 0)
    IN  [present |-> TRUE,
         has_pos |-> xfrm.has_off,
         x |-> IF xfrm.has_off THEN Fmt6(AttrInt(xfrm.x, 0), c.w) ELSE 0,
         y |-> IF xfrm.has_off THEN Fmt6(AttrInt(xfrm.y, 0), c.w) ELSE 0,
         has_size |-> xfrm.has_ext,
         width |-> IF xfrm.has_ext THEN Fmt6(AttrInt(xfrm.cx, 0), c.w) ELSE 0,
         height |-> IF xfrm.has_ext THEN Fmt6(AttrInt(xfrm.cy, 0), c.w) ELSE 0,
         rot_deg |-> Sign(rot) * (Abs(rot) \div RotUnit),
         rot_frac |-> Sign(rot) * (Abs(rot) % RotUnit),
         flip_h |-> xfrm.flipH,
         flip_v |-> xfrm.flipV]

extract_geometry(xfrm, pres) ==
    LET c == GeometryCanvas(pres)
        rot == AttrInt(xfrm.rot, 0)
    IN  [present |-> TRUE,
         has_pos |-> xfrm.has_off,
         x |-> IF xfrm.has_off THEN Fmt6(AttrInt(xfrm.x, 0), c.w) ELSE 0,
         y |-> IF xfrm.has_off THEN Fmt6(AttrInt(xfrm.y, 0), c.h) ELSE 0,
         has_size |-> xfrm.has_ext,
         width |-> IF xfrm.has_ext THEN Fmt6(AttrInt(xfrm.cx, 0), c.w) ELSE 0,
         height |-> IF xfrm.has_ext THEN Fmt6(AttrInt(xfrm.cy, 0), c.h) ELSE 0,
         rot_deg |-> Sign(rot) * (Abs(rot) \div RotUnit),
         rot_frac |-> Sign(rot) * (Abs(rot) % RotUnit),
         flip_h |-> xfrm.flipH,
         flip_v |-> xfrm.flipV]

(***************************************************************************)
(* SpecGeom: extract_geometry applied to every a:xfrm and presentation     *)
(* part of the sets below.                                                 *)
(***************************************************************************)
\* Raw EMU offsets and extents: off-canvas, zero, one EMU, sub-point,
\* one point (12700), and canvas-sized values; 762 EMU is halfway between
\* two millionths of a canvas 12192000 wide (62.5), where the text follows
\* the double of the quotient.
RawOffsets == {-457200, 0, 1, 619, 762, 4572000}
RawExtents == {0, 12700, 914400, 6858000}
\* A rotation (60000ths of a degree) with the flipH flag it comes with.
RawTurns == {<<0, FALSE>>, <<5400000, TRUE>>, <<-2700000, FALSE>>}

NoXfrm ==
    [present |-> FALSE, has_off |-> FALSE, x |-> NoAttr, y |-> NoAttr,
     has_ext |-> FALSE, cx |-> NoAttr, cy |-> NoAttr, rot |-> NoAttr,
     flipH |-> FALSE, flipV |-> FALSE]

OffAttrs == {NoAttr} \cup {Attr(v) : v \in RawOffsets}
ExtAttrs == {NoAttr} \cup {Attr(v) : v \in RawExtents}

Xfrms ==
    {[present |-> TRUE, has_off |-> TRUE, x |-> ox, y |-> oy,
      has_ext |-> TRUE, cx |-> ex, cy |-> ey, rot |-> Attr(r[1]),
      flipH |-> r[2], flipV |-> ~r[2]] :
        ox \in OffAttrs, oy \in OffAttrs, ex \in ExtAttrs, ey \in ExtAttrs,
        r \in RawTurns}
    \cup {[present |-> TRUE, has_off |-> ho, x |-> NoAttr, y |-> NoAttr,
           has_ext |-> he, cx |-> NoAttr, cy |-> NoAttr, rot |-> NoAttr,
           flipH |-> FALSE, flipV |-> FALSE] : ho \in BOOLEAN, he \in BOOLEAN}

\* ppt/presentation.xml as far as the canvas goes: the part is missing,
\* unparsable, or parsed; parsed, it has a p:sldSz or none; the p:sldSz
\* gives cx and cy or leaves one out.
CanvasWidths == {9144000, 12192000}
CanvasHeights == {6858000, 5143500}

PresCanvas ==
    {[status |-> "ok", has_sldSz |-> TRUE, cx |-> a, cy |-> b] :
        a \in {NoAttr} \cup {Attr(v) : v \in CanvasWidths},
        b \in {NoAttr} \cup {Attr(v) : v \in CanvasHeights}}
    \cup {[status |-> st, has_sldSz |-> FALSE, cx |-> NoAttr, cy |-> NoAttr] :
            st \in {"ok", "missing", "malformed"}}

IdleGeom ==
    /\ presentation_xml = [status |-> "missing", has_sldSz |-> FALSE,
                           cx |-> NoAttr, cy |-> NoAttr]
    /\ xfrm_elem = NoXfrm
    /\ geom = NoGeometry

InitGeom ==
    /\ presentation_xml \in PresCanvas
    /\ xfrm_elem \in Xfrms
    /\ geom = NoGeometry

ExtractGeometry ==
    /\ ~geom.present
    /\ geom' = extract_geometry(xfrm_elem, presentation_xml)
    /\ UNCHANGED <<presentation_xml, xfrm_elem, slideVars, featVars, relVars, pipeVars, unitVars>>

(***************************************************************************)
(* A slide's content tree.  The spTree is the sequence of its descendant   *)
(* sp / pic / graphicFrame / grpSp nodes in document order; parent = 0 is  *)
(* the spTree itself, otherwise the position of the enclosing grpSp.       *)
(*   named    sp: has p:nvSpPr; pic: has p:nvPicPr                         *)
(*   content  graphicFrame: holds a c:chart, an a:tbl, or neither          *)
(*   xfrm     the node's own a:xfrm (NoXfrm: none; a placeholder shape     *)
(*            inherits its position and a p:graphicFrame carries a p:xfrm) *)
(***************************************************************************)
Node(k, n, c, x, p) ==
    [kind |-> k, named |-> n, content |-> c, xfrm |-> x, parent |-> p]

\* The nodes SpecSlide draws from, without their parent: shapes and
\* pictures with and without their naming element, the three graphic
\* frames, a group; none with a transform of its own.
NodeShapes ==
    {Node("sp", b, "none", NoXfrm, 0) : b \in BOOLEAN}
    \cup {Node("pic", b, "none", NoXfrm, 0) : b \in BOOLEAN}
    \cup {Node("graphicFrame", TRUE, c, NoXfrm, 0) :
            c \in {"chart", "tbl", "other"}}
    \cup {Node("grpSp", TRUE, "none", NoXfrm, 0)}

RECURSIVE Ancestors(_, _)
\* The positions of the grpSp nodes enclosing position i (0 excluded).
Ancestors(t, i) ==
    IF i = 0 \/ t[i].parent = 0 THEN {}
    ELSE {t[i].parent} \cup Ancestors(t, t[i].parent)

\* The parents a node appended to t may have, document order kept: the
\* spTree, the last node when it is a group, or a group still open there.
OpenGroups(t) ==
    IF Len(t) = 0 THEN {0}
    ELSE {0} \cup Ancestors(t, Len(t))
             \cup (IF t[Len(t)].kind = "grpSp" THEN {Len(t)} ELSE {})

RECURSIVE TreesOfLen(_)
\* The content trees of n nodes.
TreesOfLen(n) ==
    IF n = 0 THEN {<<>>}
    ELSE LET choices == {c \in TreesOfLen(n - 1) \X NodeShapes \X (0..(n - 1)) :
                            c[3] \in OpenGroups(c[1])}
         IN  {Append(c[1], [c[2] EXCEPT !.parent = c[3]]) : c \in choices}

\* A parsed slide: with a p:spTree of n nodes, or without a p:spTree.
SlideRootsOfLen(n) == {[has_sp_tree |-> TRUE, sp_tree |-> t] : t \in TreesOfLen(n)}
NoSpTree == [has_sp_tree |-> FALSE, sp_tree |-> <<>>]

(***************************************************************************)
(* ElementTree queries.                                                    *)
(***************************************************************************)
\* The positions of t, ascending: document order.
Positions(t) == [i \in 1..Len(t) |-> i]

IsSp(t, i) == t[i].kind = "sp"
IsPic(t, i) == t[i].kind = "pic"
IsGraphicFrame(t, i) == t[i].kind = "graphicFrame"
IsGrpSp(t, i) == t[i].kind = "grpSp"
IsChart(t, i) == t[i].kind = "graphicFrame" /\ t[i].content = "chart"
IsTbl(t, i) == t[i].kind = "graphicFrame" /\ t[i].content = "tbl"

\* sp_tree.findall('.//<tag>'): every descendant, at any depth.
FindAll(t, Test(_, _)) ==
    LET Hit(i) == Test(t, i) IN SelectSeq(Positions(t), Hit)

\* grp.findall('.//<tag>'): the descendants of the group at position g.
FindAllUnder(t, g, Test(_, _)) ==
    LET Hit(i) == g \in Ancestors(t, i) /\ Test(t, i)
    IN  SelectSeq(Positions(t), Hit)

HasXfrm(t, i) == t[i].xfrm.present

\* node.find('.//a:xfrm'): the node's own a:xfrm, else the first one of a
\* descendant; NoXfrm when there is none.
FindXfrm(t, i) ==
    IF t[i].xfrm.present THEN t[i].xfrm
    ELSE LET below == FindAllUnder(t, i, HasXfrm)
         IN  IF Len(below) > 0 THEN t[below[1]].xfrm ELSE NoXfrm

(***************************************************************************)
(* infer_slide_role                                                        *)
(***************************************************************************)
\* infer_slide_role with the picture rule tried before the chart rule.
infer_slide_role_pictures_first(root, idx) ==
    IF idx = 1 THEN "title_slide"
    ELSE IF ~root.has_sp_tree THEN "content"
    ELSE IF Len(FindAll(root.sp_tree, IsPic)) > 2 THEN "image_gallery"
    ELSE IF Len(FindAll(root.sp_tree, IsChart)) > 0 THEN "data_visualization"
    ELSE IF Len(FindAll(root.sp_tree, IsTbl)) > 0 THEN "table_content"
    ELSE "content"

infer_slide_role(root, idx) ==
    IF idx = 1 THEN "title_slide"
    ELSE IF ~root.has_sp_tree THEN "content"
    ELSE IF Len(FindAll(root.sp_tree, IsChart)) > 0 THEN "data_visualization"
    ELSE IF Len(FindAll(root.sp_tree, IsTbl)) > 0 THEN "table_content"
    ELSE IF Len(FindAll(root.sp_tree, IsPic)) > 2 THEN "image_gallery"
    ELSE "content"

(***************************************************************************)
(* The element extractors.  An extractor returns Some(element) or None.    *)
(* An element record: type, z_order, geometry, children (a group's), and   *)
(* src, the position of the source node it was made from (not part of the  *)
(* output: it lets a property name the node).                              *)
(***************************************************************************)
None == [some |-> FALSE]
Some(e) == [some |-> TRUE, elem |-> e]

Element(type, z, src, geometry, children) ==
    [type |-> type, z_order |-> z, src |-> src, geometry |-> geometry,
     children |-> children]

\* The "Geometry" step of each extractor.
GeometryOf(t, i, pres) ==
    LET x == FindXfrm(t, i)
    IN  IF x.present THEN extract_geometry(x, pres) ELSE NoGeometry

extract_shape_element(t, i, z_order, pres) ==
    IF ~t[i].named THEN None
    ELSE Some(Element("textbox", z_order, i, GeometryOf(t, i, pres), <<>>))

extract_picture_element(t, i, z_order, pres) ==
    IF ~t[i].named THEN None
    ELSE Some(Element("picture", z_order, i, GeometryOf(t, i, pres), <<>>))

extract_chart_element(t, i, z_order, pres) ==
    Some(Element("chart", z_order, i, GeometryOf(t, i, pres), <<>>))

extract_table_element(t, i, z_order, pres) ==
    Some(Element("table", z_order, i, GeometryOf(t, i, pres), <<>>))

extract_graphic_frame(t, i, z_order, pres) ==
    IF t[i].content = "chart" THEN extract_chart_element(t, i, z_order, pres)
    ELSE IF t[i].content = "tbl" THEN extract_table_element(t, i, z_order, pres)
    ELSE Some(Element("graphic", z_order, i, NoGeometry, <<>>))

RECURSIVE GroupChildren(_, _, _, _, _)
\* The loop of extract_group_element over the group's p:sp descendants
\* cands, from child_z, appending to acc.
GroupChildren(t, cands, acc, child_z, pres) ==
    IF cands = <<>> THEN acc
    ELSE LET child == extract_shape_element(t, Head(cands), child_z, pres)
         IN  IF child.some
             THEN GroupChildren(t, Tail(cands), Append(acc, child.elem),
                                child_z + 1, pres)
             ELSE GroupChildren(t, Tail(cands), acc, child_z, pres)

\* extract_group_element numbering the children on from the group's own
\* z-order.
extract_group_element_slide_numbered(t, i, z_order, pres) ==
    Some(Element("group", z_order, i, GeometryOf(t, i, pres),
                 GroupChildren(t, FindAllUnder(t, i, IsSp), <<>>, z_order + 1, pres)))

\* extract_group_element: the children are the group's p:sp descendants at
\* any depth, numbered from 1.
extract_group_element(t, i, z_order, pres) ==
    Some(Element("group", z_order, i, GeometryOf(t, i, pres),
                 GroupChildren(t, FindAllUnder(t, i, IsSp), <<>>, 1, pres)))

\* The extractor extract_slide_elements calls for a node of each kind.
ExtractChild(t, i, z_order, pres) ==
    CASE t[i].kind = "sp" -> extract_shape_element(t, i, z_order, pres)
      [] t[i].kind = "pic" -> extract_picture_element(t, i, z_order, pres)
      [] t[i].kind = "graphicFrame" -> extract_graphic_frame(t, i, z_order, pres)
      [] t[i].kind = "grpSp" -> extract_group_element(t, i, z_order, pres)

RECURSIVE ExtractPassAlwaysCounting(_, _, _, _, _)
\* ExtractPass with the counter advanced for every child visited.
ExtractPassAlwaysCounting(t, cands, acc, z_order, pres) ==
    IF cands = <<>> THEN [elems |-> acc, z |-> z_order]
    ELSE LET elem == ExtractChild(t, Head(cands), z_order, pres)
         IN  ExtractPassAlwaysCounting(t, Tail(cands),
                IF elem.some THEN Append(acc, elem.elem) ELSE acc,
                z_order + 1, pres)

RECURSIVE ExtractPass(_, _, _, _, _)
\* One "for ... in sp_tree.findall(...)" loop of extract_slide_elements
\* over the nodes cands: the elements appended to acc and the counter
\* after the loop.
ExtractPass(t, cands, acc, z_order, pres) ==
    IF cands = <<>> THEN [elems |-> acc, z |-> z_order]
    ELSE LET elem == ExtractChild(t, Head(cands), z_order, pres)
         IN  IF elem.some
             THEN ExtractPass(t, Tail(cands), Append(acc, elem.elem),
                              z_order + 1, pres)
             ELSE ExtractPass(t, Tail(cands), acc, z_order, pres)

\* One loop over the nodes in document order.
PassOrderOfDocument(t) == Positions(t)

\* The nodes extract_slide_elements visits, in the order it visits them:
\* its four loops, each over all the descendants of the spTree of one tag.
PassOrder(t) ==
    FindAll(t, IsSp) \o FindAll(t, IsPic)
        \o FindAll(t, IsGraphicFrame) \o FindAll(t, IsGrpSp)

\* extract_slide_elements: shapes, pictures, graphic frames, groups.  The
\* four loops share the counter and the list they append to, so they are
\* one loop over PassOrder.
extract_slide_elements(root, pres) ==
    IF ~root.has_sp_tree THEN <<>>
    ELSE ExtractPass(root.sp_tree, PassOrder(root.sp_tree), <<>>, 1, pres).elems

(***************************************************************************)
(* SpecSlide: infer_slide_role and extract_slide_elements, in the order    *)
(* extract_slide_features calls them, on every slide of SlideRoots.        *)
(***************************************************************************)
\* No readable presentation part: the default canvas.
NoPresentation ==
    [status |-> "missing", has_sldSz |-> FALSE, cx |-> NoAttr, cy |-> NoAttr]

InitSlide ==
    /\ \/ \E n \in 0..MaxNodes : slide_root \in SlideRootsOfLen(n)
       \/ slide_root = NoSpTree
    /\ index \in 1..MaxIndex
    /\ semantic_role = ""
    /\ elements_elem = <<>>
    /\ spc = "start"

InferSlideRole ==
    /\ spc = "start"
    /\ semantic_role' = infer_slide_role(slide_root, index)
    /\ spc' = "role"
    /\ UNCHANGED <<slide_root, index, elements_elem, geomVars, featVars, relVars, pipeVars, unitVars>>

ExtractSlideElements ==
    /\ spc = "role"
    /\ elements_elem' = extract_slide_elements(slide_root, NoPresentation)
    /\ spc' = "elements"
    /\ UNCHANGED <<slide_root, index, semantic_role, geomVars, featVars, relVars, pipeVars, unitVars>>

(***************************************************************************)
(* compute_slide_features, over the <elements> list of a slide.            *)
(***************************************************************************)
RECURSIVE AllElements(_)
\* elements.findall('.//element'): every element record at any depth, in
\* document order (an element, then its children).
AllElements(elems) ==
    IF elems = <<>> THEN <<>>
    ELSE <<Head(elems)>> \o Head(elems).children \o AllElements(Tail(elems))

\* elements.findall('.//element[@type="..."]')
CountType(all, type) ==
    LET Hit(e) == e.type = type IN Len(SelectSeq(all, Hit))

\* elem.find('.//geometry'): the element's own geometry, else the first one
\* among its children.
FeatureGeometry(e) ==
    IF e.geometry.present THEN e.geometry
    ELSE LET Has(c) == c.geometry.present
             below == SelectSeq(e.children, Has)
         IN  IF Len(below) > 0 THEN below[1].geometry ELSE NoGeometry

\* TextToImageRatio with the charts left out of the denominator.
TextToImageRatioPicturesOnly(text_count, image_count, chart_count) ==
    IF image_count > 0
    THEN [inf |-> FALSE, num |-> text_count, den |-> image_count,
          hundredths |-> Fmt2(text_count, image_count)]
    ELSE IF text_count > 0
         THEN [inf |-> TRUE, num |-> 0, den |-> 1, hundredths |-> 0]
         ELSE [inf |-> FALSE, num |-> 0, den |-> 1, hundredths |-> 0]

\* ratio as the code's three cases, with the text f"{ratio:.2f}" gives.
TextToImageRatio(text_count, image_count, chart_count) ==
    IF image_count + chart_count > 0
    THEN [inf |-> FALSE, num |-> text_count, den |-> image_count + chart_count,
          hundredths |-> Fmt2(text_count, image_count + chart_count)]
    ELSE IF text_count > 0
         THEN [inf |-> TRUE, num |-> 0, den |-> 1, hundredths |-> 0]
         ELSE [inf |-> FALSE, num |-> 0, den |-> 1, hundredths |-> 0]

RECURSIVE TotalArea(_)
\* total_area in exact arithmetic: width * height summed over the elements
\* with a geometry that has both (sizes are not negative).
TotalArea(all) ==
    IF all = <<>> THEN PairZero
    ELSE LET g == FeatureGeometry(Head(all))
         IN  PairAdd(IF g.present /\ g.has_size THEN MulPair(g.width, g.height)
                     ELSE PairZero,
                     TotalArea(Tail(all)))

\* sofar + terms[lo] + ... + terms[hi], added one at a time from the left
\* as a loop's "+=" does.  The range is halved, the left half being worked
\* out before the right one is entered.
RECURSIVE FloatSum(_, _, _, _)
FloatSum(terms, lo, hi, sofar) ==
    IF lo > hi THEN sofar
    ELSE IF lo = hi THEN FAdd(sofar, terms[lo])
    ELSE LET mid == (lo + hi) \div 2
             left == FloatSum(terms, lo, mid, sofar)
         IN  IF left = sofar THEN FloatSum(terms, mid + 1, hi, sofar)
             ELSE FloatSum(terms, mid + 1, hi, left)

\* width * height on the doubles of the two texts.
FloatWeight(g) == FMul(FloatOfMicro(g.width), FloatOfMicro(g.height))

\* total_area as the loop holds it in the end: the double of each width and
\* height text, their product added to the sum so far.
FloatArea(all) ==
    FloatSum([k \in 1..Len(all) |->
                IF FeatureGeometry(all[k]).present /\ FeatureGeometry(all[k]).has_size
                THEN FloatWeight(FeatureGeometry(all[k])) ELSE FZero],
             1, Len(all), FZero)

\* max(0, 1.0 - min(total_area, 1.0)) on the double.
FloatWhitespace(float_area) ==
    IF FLess(float_area, FOne) THEN FSub(FOne, float_area) ELSE FZero

\* The share of the canvas that is covered, min(total_area, 1.0), in place
\* of the share that is free.
WhitespaceRatioOfCoverage(total_area, float_area) ==
    IF PairLe(PairOne, total_area) THEN 100
    ELSE PairHundredths(total_area, PairOne, float_area)

\* max(0, 1.0 - min(total_area, 1.0)) as f"{...:.2f}" writes it, in
\* hundredths: total_area is the exact sum and float_area the double the
\* loop holds for it.
WhitespaceRatio(total_area, float_area) ==
    IF PairLe(PairOne, total_area) THEN 0
    ELSE PairHundredths(PairSub(PairOne, total_area), PairOne,
                        FloatWhitespace(float_area))

\* x + width / 2 on the doubles: fx is the double of abs(x), half that of
\* width / 2.
FloatCentre(x, fx, half) == IF x < 0 THEN FSub(half, fx) ELSE FAdd(fx, half)

\* x + width / 2 < 0.5 for the doubles of the two texts (x and width in
\* millionths, width >= 0).  The doubles are within 10^-15 of the decimals,
\* so only a centre at exactly 0.5 depends on them.
CentreBefore(x, width) ==
    IF 2 * x + width # Micro THEN 2 * x + width < Micro
    ELSE FLess(FloatCentre(x, FloatOfMicro(Abs(x)), FHalved(FloatOfMicro(width))),
               FHalf)

\* The sides an element's weight goes to: none without x, y, width and
\* height, else left or right and top or bottom, a centre at 0.5 counting
\* as right and as bottom.
SidesOf(g, before_x, before_y) ==
    [left |-> before_x, right |-> ~before_x, top |-> before_y, bottom |-> ~before_y]
Sides(all) ==
    SubSeq([k \in 1..Len(all) |->
                IF ~(/\ FeatureGeometry(all[k]).present
                     /\ FeatureGeometry(all[k]).has_pos
                     /\ FeatureGeometry(all[k]).has_size)
                THEN [left |-> FALSE, right |-> FALSE, top |-> FALSE, bottom |-> FALSE]
                ELSE SidesOf(FeatureGeometry(all[k]),
                             CentreBefore(FeatureGeometry(all[k]).x,
                                          FeatureGeometry(all[k]).width),
                             CentreBefore(FeatureGeometry(all[k]).y,
                                          FeatureGeometry(all[k]).height))],
           1, Len(all))

RECURSIVE Weights(_, _, _)
\* left/right/top/bottom_weight in exact arithmetic after the first k
\* elements: each adds width * height to its sides.
Weights(all, sides, k) ==
    IF k = 0
    THEN [left |-> PairZero, right |-> PairZero, top |-> PairZero, bottom |-> PairZero]
    ELSE LET g == FeatureGeometry(all[k])
             before == Weights(all, sides, k - 1)
         IN  [side \in {"left", "right", "top", "bottom"} |->
                IF sides[k][side]
                THEN PairAdd(before[side], MulPair(g.width, g.height))
                ELSE before[side]]

\* One of the four weights as the loop holds it in the end.
FloatWeights(all, sides, side) ==
    FloatSum([k \in 1..Len(all) |->
                IF sides[k][side] THEN FloatWeight(FeatureGeometry(all[k]))
                ELSE FZero],
             1, Len(all), FZero)

\* 1.0 - abs(a - b) / total on the doubles of the two weights.
FloatBalance(fa, fb) == FSub(FOne, FDiv(FAbsDiff(fa, fb), FAdd(fa, fb)))

\* 1.0 - abs(a - b) / total if total > 0 else 1.0, as f"{...:.2f}" writes
\* it, in hundredths: a and b are the two weights as exact sums, fa and fb
\* the doubles the loop holds for them.
Balance(a, b, fa, fb) ==
    LET total == PairAdd(a, b)
    IN  IF total = PairZero THEN 100
        ELSE PairHundredths(PairSub(total, PairAbsDiff(a, b)), total,
                            FloatBalance(fa, fb))

\* The <computed> element for the elements all and the sides of each.
ComputedFeatures(elems, all, sides) ==
    LET w == Weights(all, sides, Len(all))
    IN  [present |-> TRUE,
         element_count |-> Len(elems),
         text_to_image_ratio |->
            TextToImageRatio(CountType(all, "textbox"), CountType(all, "picture"),
                             CountType(all, "chart")),
         whitespace_ratio |->
            WhitespaceRatio(TotalArea(all), FloatArea(all)),
         layout_balance_horizontal |->
            Balance(w.left, w.right, FloatWeights(all, sides, "left"),
                    FloatWeights(all, sides, "right")),
         layout_balance_vertical |->
            Balance(w.top, w.bottom, FloatWeights(all, sides, "top"),
                    FloatWeights(all, sides, "bottom"))]

compute_slide_features(elems) ==
    ComputedFeatures(elems, AllElements(elems), Sides(AllElements(elems)))

NoComputed ==
    [present |-> FALSE, element_count |-> 0,
     text_to_image_ratio |-> [inf |-> FALSE, num |-> 0, den |-> 1, hundredths |-> 0],
     whitespace_ratio |-> 0, layout_balance_horizontal |-> 0,
     layout_balance_vertical |-> 0]

(***************************************************************************)
(* SpecFeatures: compute_slide_features on every <elements> list of up to  *)
(* MaxElems top-level elements drawn from the records below.  The one      *)
(* with an extent only covers 0.005 of the canvas: alone it leaves 0.995,  *)
(* halfway between two hundredths, and the double of 1 - 0.5 * 0.01 lies   *)
(* below that.                                                             *)
(***************************************************************************)
Geom(x, y, w, h) ==
    [NoGeometry EXCEPT !.present = TRUE, !.has_pos = TRUE, !.x = x, !.y = y,
                       !.has_size = TRUE, !.width = w, !.height = h]

FeatureGeometries ==
    {NoGeometry,
     [NoGeometry EXCEPT !.present = TRUE],                  \* no off, no ext
     [NoGeometry EXCEPT !.present = TRUE, !.has_size = TRUE,
                        !.width = 500000, !.height = 10000], \* ext only
     Geom(250000, 250000, 500000, 500000),      \* centred at (0.5, 0.5)
     Geom(0, 0, 250000, 250000),                \* top left
     Geom(500000, 500000, 500000, 500000),      \* bottom right
     Geom(-125000, 125000, 375000, 125000),     \* partly off the canvas
     Geom(125000, 125000, 0, 750000),           \* zero width
     Geom(0, 0, 1000000, 937500)}               \* nearly the whole canvas

FeatureTypes == {"textbox", "picture"}

\* The geometries of the charts, tables and groups: none, centred, top left.
FrameGeometries ==
    {NoGeometry, Geom(250000, 250000, 500000, 500000), Geom(0, 0, 250000, 250000)}

\* The geometry of a group's child shape, when it has one.
ChildGeometries == {NoGeometry, Geom(0, 0, 250000, 250000)}

\* A top-level element as the extractors build it: a textbox or picture
\* with any geometry; a chart, table or group with one of three; a
\* "graphic", which never has one.  A group has no child or one textbox
\* child; it takes the first a:xfrm below it, so it has a geometry whenever
\* its child has.
FeatureElements ==
    {Element(ty, 1, 0, g, <<>>) : ty \in FeatureTypes, g \in FeatureGeometries}
    \cup {Element(ty, 1, 0, g, <<>>) :
            ty \in {"chart", "table", "group"}, g \in FrameGeometries}
    \cup {Element("graphic", 1, 0, NoGeometry, <<>>)}
    \cup {Element("group", 1, 0, gc[1], <<Element("textbox", 1, 0, gc[2], <<>>)>>) :
            gc \in {p \in FrameGeometries \X ChildGeometries :
                        p[2].present => p[1].present}}

\* The list with the z-orders extract_slide_elements gives: 1, 2, ...
Numbered(elems) == [k \in 1..Len(elems) |-> [elems[k] EXCEPT !.z_order = k]]

IdleFeatures == elements = <<>> /\ computed = NoComputed

InitFeatures ==
    /\ \E n \in 0..MaxElems :
        \E es \in [1..n -> FeatureElements] : elements = Numbered(es)
    /\ computed = NoComputed

ComputeSlideFeatures ==
    /\ ~computed.present
    /\ computed' = compute_slide_features(elements)
    /\ UNCHANGED <<elements, slideVars, geomVars, relVars, pipeVars, unitVars>>

(***************************************************************************)
(* Relationship manifests (the .rels parts) and the three lookups.         *)
(***************************************************************************)
\* A string attribute: given with a value, or absent (get() gives None).
Str(v) == [given |-> TRUE, val |-> v]
NoStr == [given |-> FALSE, val |-> ""]

\* A Relationship entry with its Id, Type and Target attributes.
Rel(id, type, target) == [Id |-> id, Type |-> type, Target |-> target]

\* needle in hay, on strings.
Contains(hay, needle) ==
    \E i \in 0..(Len(hay) - Len(needle)) : SubSeq(hay, i + 1, i + Len(needle)) = needle

\* zip_file.read(rels_file), ET.fromstring and findall(Relationship): the
\* entries in document order, or an exception when the part is missing
\* (KeyError) or is not XML (ParseError).
ReadRelationships(part) ==
    IF part.status = "ok" THEN [raised |-> FALSE, rels |-> part.rels]
    ELSE [raised |-> TRUE, rels |-> <<>>]

\* The try block of get_relationship_target: the Target of the first entry
\* whose Id equals rel_id, falling through when there is none.
RelationshipTargetTry(part, rel_id) ==
    LET read == ReadRelationships(part)
        Hit(rel) == rel.Id = rel_id
        hits == SelectSeq(read.rels, Hit)
    IN  [raised |-> read.raised,
         value |-> IF Len(hits) > 0 THEN hits[1].Target ELSE NoStr]

\* get_relationship_target with the exception left to the caller.
get_relationship_target_propagating(part, rel_id) ==
    RelationshipTargetTry(part, rel_id)

\* "except: pass" and the final "return None".
get_relationship_target(part, rel_id) ==
    LET try == RelationshipTargetTry(part, rel_id)
    IN  IF try.raised THEN [raised |-> FALSE, value |-> NoStr] ELSE try

\* targets collects the Target of every entry whose Type contains rel_type;
\* an exception leaves the list as it was, empty.
get_all_relationships(part, rel_type) ==
    LET read == ReadRelationships(part)
        Hit(rel) == Contains(rel.Type.val, rel_type)
        hits == SelectSeq(read.rels, Hit)
    IN  [raised |-> FALSE,
         value |-> IF read.raised THEN <<>>
                   ELSE [k \in 1..Len(hits) |-> hits[k].Target]]

\* True at the first entry whose Type contains rel_type, else False.
has_relationship_type(part, rel_type) ==
    LET read == ReadRelationships(part)
    IN  [raised |-> FALSE,
         value |-> ~read.raised
                   /\ \E k \in 1..Len(read.rels) :
                        Contains(read.rels[k].Type.val, rel_type)]

(***************************************************************************)
(* SpecRels: one lookup on a manifest that is missing, malformed, or holds *)
(* up to MaxRels entries.                                                  *)
(***************************************************************************)
RelTypePrefix == "http://schemas.openxmlformats.org/officeDocument/2006/relationships/"
RelIdAttrs == {NoStr, Str("rId1"), Str("rId2")}
RelTypeAttrs ==
    {NoStr, Str(RelTypePrefix \o "slideLayout"), Str(RelTypePrefix \o "notesSlide")}
RelTargetAttrs == {NoStr, Str("slides/slide1.xml"), Str("../slideLayouts/slideLayout1.xml")}
Rels == {Rel(i, ty, ta) : i \in RelIdAttrs, ty \in RelTypeAttrs, ta \in RelTargetAttrs}

MissingPart == [status |-> "missing", rels |-> <<>>]
MalformedPart == [status |-> "malformed", rels |-> <<>>]
RelsPartsOfLen(n) == {[status |-> "ok", rels |-> r] : r \in [1..n -> Rels]}

\* The ids and types asked for: the callers pass a sldId's r:id (None when
\* the attribute is absent), 'slideLayout' and 'notesSlide'.
AskedIds == {NoStr, Str("rId1"), Str("rId2"), Str("rId9")}
AskedTypes == {"slideLayout", "notesSlide", "slide"}

NoRelResult ==
    [done |-> FALSE, op |-> "", id |-> NoStr, type |-> "", raised |-> FALSE,
     target |-> NoStr, targets |-> <<>>, found |-> FALSE]

IdleRels == rels_part = MissingPart /\ rel_result = NoRelResult

InitRels ==
    /\ \/ rels_part \in {MissingPart, MalformedPart}
       \/ \E n \in 0..MaxRels : rels_part \in RelsPartsOfLen(n)
    /\ rel_result = NoRelResult

GetRelationshipTarget ==
    /\ ~rel_result.done
    /\ \E rel_id \in AskedIds :
        LET r == get_relationship_target(rels_part, rel_id)
        IN  rel_result' = [NoRelResult EXCEPT !.done = TRUE,
                              !.op = "get_relationship_target", !.id = rel_id,
                              !.raised = r.raised, !.target = r.value]
    /\ UNCHANGED <<rels_part, slideVars, geomVars, featVars, pipeVars, unitVars>>

GetAllRelationships ==
    /\ ~rel_result.done
    /\ \E rel_type \in AskedTypes :
        LET r == get_all_relationships(rels_part, rel_type)
        IN  rel_result' = [NoRelResult EXCEPT !.done = TRUE,
                              !.op = "get_all_relationships", !.type = rel_type,
                              !.raised = r.raised, !.targets = r.value]
    /\ UNCHANGED <<rels_part, slideVars, geomVars, featVars, pipeVars, unitVars>>

HasRelationshipType ==
    /\ ~rel_result.done
    /\ \E rel_type \in AskedTypes :
        LET r == has_relationship_type(rels_part, rel_type)
        IN  rel_result' = [NoRelResult EXCEPT !.done = TRUE,
                              !.op = "has_relationship_type", !.type = rel_type,
                              !.raised = r.raised, !.found = r.value]
    /\ UNCHANGED <<rels_part, slideVars, geomVars, featVars, pipeVars, unitVars>>

(***************************************************************************)
(* The driver: main and extract_all_features over an input archive.        *)
(* The archive holds the presentation part, its relationship manifest, the *)
(* theme part and slide parts; docProps and the slide masters, which the   *)
(* driver also reads, are not part of this model.                          *)
(***************************************************************************)
\* Characters in code-point order, for comparing part names.
CodeOrder == "./0123456789ABCDEFGHIJKLMNOPQRSTUVWXYZ[]_abcdefghijklmnopqrstuvwxyz"
CharAt(str, i) == SubSeq(str, i, i)
CodeOf(c) == CHOOSE k \in 1..Len(CodeOrder) : CharAt(CodeOrder, k) = c

\* a < b on strings, as list.sort() compares them.
StrLess(a, b) ==
    \E i \in 1..Len(b) :
        /\ i <= Len(a) + 1
        /\ SubSeq(a, 1, i - 1) = SubSeq(b, 1, i - 1)
        /\ \/ i = Len(a) + 1
           \/ CodeOf(CharAt(a, i)) < CodeOf(CharAt(b, i))

RECURSIVE Sorted(_)
\* The strings of a set in ascending order.
Sorted(names) ==
    IF names = {} THEN <<>>
    ELSE LET least == CHOOSE a \in names : \A b \in names \ {a} : StrLess(a, b)
         IN  <<least>> \o Sorted(names \ {least})

StartsWith(str, prefix) ==
    Len(str) >= Len(prefix) /\ SubSeq(str, 1, Len(prefix)) = prefix
EndsWith(str, suffix) ==
    Len(str) >= Len(suffix)
    /\ SubSeq(str, Len(str) - Len(suffix) + 1, Len(str)) = suffix

\* The last position of character c in str, 0 when it has none.
LastIndexOf(str, c) ==
    LET at == {i \in 1..Len(str) : CharAt(str, i) = c}
    IN  IF at = {} THEN 0 ELSE CHOOSE i \in at : \A j \in at : j <= i

RECURSIVE LastComponent(_)
\* Path(name).name: Path splits the name at "/" and drops the components
\* that are empty or ".", so the last one left, "" when none is.
LastComponent(name) ==
    LET cut == LastIndexOf(name, "/")
        last == SubSeq(name, cut + 1, Len(name))
    IN  IF last # "" /\ last # "." THEN last
        ELSE IF cut = 0 THEN ""
        ELSE LastComponent(SubSeq(name, 1, cut - 1))

\* Path(name).stem: the last path component without its last suffix.
Stem(name) ==
    LET base == LastComponent(name)
        dot == LastIndexOf(base, ".")
    IN  IF dot > 1 /\ dot < Len(base) THEN SubSeq(base, 1, dot - 1) ELSE base

\* The parts of the archive that hold no slide.
PresentationPartName == "ppt/presentation.xml"
PresentationRelsName == "ppt/_rels/presentation.xml.rels"
ThemePartName == "ppt/theme/theme1.xml"
OtherPartNames == {"[Content_Types].xml", "ppt/slides/_rels/slide2.xml.rels"}

\* zip_file.namelist(): the names of the parts the archive holds.
NameList(pkg) ==
    OtherPartNames
    \cup {n \in DOMAIN pkg.slide_parts : pkg.slide_parts[n] # "absent"}
    \cup (IF pkg.presentation.status # "missing" THEN {PresentationPartName} ELSE {})
    \cup (IF pkg.pres_rels.status # "missing" THEN {PresentationRelsName} ELSE {})
    \cup (IF pkg.theme.status # "missing" THEN {ThemePartName} ELSE {})

\* The except branch of get_slide_files: the slide parts by sorted name.
SlideFilesByName(pkg) ==
    Sorted({f \in NameList(pkg) :
                StartsWith(f, "ppt/slides/slide") /\ EndsWith(f, ".xml")})

RECURSIVE SlideFilesByIdList(_, _)
\* The loop of get_slide_files over the p:sldId entries: each r:id is looked
\* up in the presentation manifest, and a target that is found and not
\* empty is appended as ppt/<target>.
SlideFilesByIdList(pkg, sld_ids) ==
    IF sld_ids = <<>> THEN <<>>
    ELSE LET slide_file == get_relationship_target(pkg.pres_rels, Head(sld_ids)).value
         IN  (IF slide_file.given /\ slide_file.val # ""
              THEN <<"ppt/" \o slide_file.val>> ELSE <<>>)
             \o SlideFilesByIdList(pkg, Tail(sld_ids))

\* get_slide_files: the id list when the presentation part can be read and
\* parsed (nothing when it holds no p:sldIdLst), the scan by name only when
\* reading or parsing it raised.
get_slide_files(pkg) ==
    IF pkg.presentation.status # "ok" THEN SlideFilesByName(pkg)
    ELSE IF ~pkg.presentation.has_sldIdLst THEN <<>>
    ELSE SlideFilesByIdList(pkg, pkg.presentation.sld_ids)

\* The state of the part a slide file names.
SlidePart(pkg, slide_file) ==
    IF slide_file \in DOMAIN pkg.slide_parts THEN pkg.slide_parts[slide_file]
    ELSE "absent"

\* The slide parts of the driver's archives that parse hold an empty shape
\* tree.
EmptySlide == [has_sp_tree |-> TRUE, sp_tree |-> <<>>]

\* The try block of extract_slide_features: reading a part the archive
\* lacks raises KeyError, parsing one that is not XML raises ParseError,
\* both before the semantic_role child is added.
SlideFeaturesTry(pkg, slide_file, idx) ==
    [raised |-> SlidePart(pkg, slide_file) # "ok",
     value |-> [id |-> Stem(slide_file), index |-> idx,
                decoded |-> SlidePart(pkg, slide_file) = "ok",
                semantic_role |-> IF SlidePart(pkg, slide_file) = "ok"
                                  THEN Str(infer_slide_role(EmptySlide, idx))
                                  ELSE NoStr]]

\* extract_slide_features with the exception left to the caller.
extract_slide_features_propagating(pkg, slide_file, idx) ==
    SlideFeaturesTry(pkg, slide_file, idx)

\* extract_slide_features: "except Exception" prints the error, and the
\* slide element made before the try is returned either way.
extract_slide_features(pkg, slide_file, idx) ==
    [SlideFeaturesTry(pkg, slide_file, idx) EXCEPT !.raised = FALSE]

(***************************************************************************)
(* extract_color_value and hex_to_rgb.  A colour value goes through        *)
(* str.upper() and int(text, 16), which act on every character of Unicode, *)
(* so the val and lastClr attributes, the value extract_color_value        *)
(* returns and the text hex_to_rgb takes are sequences of code points.     *)
(***************************************************************************)
\* The printable ASCII characters from code point 32 and from code point 97.
Printable == " !\"#$%&'()*+,-./0123456789:;<=>?@ABCDEFGHIJKLMNOPQRSTUVWXYZ[\\]^_"
PrintableLower == "abcdefghijklmnopqrstuvwxyz{|}~"

\* ord(c) of a printable ASCII character.
Ord(c) ==
    IF \E i \in 1..Len(Printable) : CharAt(Printable, i) = c
    THEN 31 + CHOOSE i \in 1..Len(Printable) : CharAt(Printable, i) = c
    ELSE 96 + CHOOSE i \in 1..Len(PrintableLower) : CharAt(PrintableLower, i) = c

\* The code points of a text written in printable ASCII.
Text(str) == SubSeq([i \in 1..Len(str) |-> Ord(CharAt(str, i))], 1, Len(str))

\* An attribute that is absent: get() gives None.
NoVal == [given |-> FALSE, val |-> <<>>]

\* The characters str.upper() changes into one other character, in runs
\* <<first, last, step, shift>>: every step-th code point from first to
\* last goes to the code point shift above it.
UpperRanges ==
    <<
       <<97, 122, 1, -32>>, <<181, 181, 1, 743>>, <<224, 246, 1, -32>>,
       <<248, 254, 1, -32>>, <<255, 255, 1, 121>>, <<257, 303, 2, -1>>,
       <<305, 305, 1, -232>>, <<307, 311, 2, -1>>, <<314, 328, 2, -1>>,
       <<331, 375, 2, -1>>, <<378, 382, 2, -1>>, <<383, 383, 1, -300>>,
       <<384, 384, 1, 195>>, <<387, 389, 2, -1>>, <<392, 392, 1, -1>>,
       <<396, 396, 1, -1>>, <<402, 402, 1, -1>>, <<405, 405, 1, 97>>,
       <<409, 409, 1, -1>>, <<410, 410, 1, 163>>, <<414, 414, 1, 130>>,
       <<417, 421, 2, -1>>, <<424, 424, 1, -1>>, <<429, 429, 1, -1>>,
       <<432, 432, 1, -1>>, <<436, 438, 2, -1>>, <<441, 441, 1, -1>>,
       <<445, 445, 1, -1>>, <<447, 447, 1, 56>>, <<453, 453, 1, -1>>,
       <<454, 454, 1, -2>>, <<456, 456, 1, -1>>, <<457, 457, 1, -2>>,
       <<459, 459, 1, -1>>, <<460, 460, 1, -2>>, <<462, 476, 2, -1>>,
       <<477, 477, 1, -79>>, <<479, 495, 2, -1>>, <<498, 498, 1, -1>>,
       <<499, 499, 1, -2>>, <<501, 501, 1, -1>>, <<505, 543, 2, -1>>,
       <<547, 563, 2, -1>>, <<572, 572, 1, -1>>, <<575, 576, 1, 10815>>,
       <<578, 578, 1, -1>>, <<583, 591, 2, -1>>, <<592, 592, 1, 10783>>,
       <<593, 593, 1, 10780>>, <<594, 594, 1, 10782>>,
       <<595, 595, 1, -210>>, <<596, 596, 1, -206>>, <<598, 599, 1, -205>>,
       <<601, 601, 1, -202>>, <<603, 603, 1, -203>>, <<604, 604, 1, 42319>>,
       <<608, 608, 1, -205>>, <<609, 609, 1, 42315>>, <<611, 611, 1, -207>>,
       <<613, 613, 1, 42280>>, <<614, 614, 1, 42308>>,
       <<616, 616, 1, -209>>, <<617, 617, 1, -211>>, <<618, 618, 1, 42308>>,
       <<619, 619, 1, 10743>>, <<620, 620, 1, 42305>>,
       <<623, 623, 1, -211>>, <<625, 625, 1, 10749>>, <<626, 626, 1, -213>>,
       <<629, 629, 1, -214>>, <<637, 637, 1, 10727>>, <<640, 640, 1, -218>>,
       <<642, 642, 1, 42307>>, <<643, 643, 1, -218>>,
       <<647, 647, 1, 42282>>, <<648, 648, 1, -218>>, <<649, 649, 1, -69>>,
       <<650, 651, 1, -217>>, <<652, 652, 1, -71>>, <<658, 658, 1, -219>>,
       <<669, 669, 1, 42261>>, <<670, 670, 1, 42258>>, <<837, 837, 1, 84>>,
       <<881, 883, 2, -1>>, <<887, 887, 1, -1>>, <<891, 893, 1, 130>>,
       <<940, 940, 1, -38>>, <<941, 943, 1, -37>>, <<945, 961, 1, -32>>,
       <<962, 962, 1, -31>>, <<963, 971, 1, -32>>, <<972, 972, 1, -64>>,
       <<973, 974, 1, -63>>, <<976, 976, 1, -62>>, <<977, 977, 1, -57>>,
       <<981, 981, 1, -47>>, <<982, 982, 1, -54>>, <<983, 983, 1, -8>>,
       <<985, 1007, 2, -1>>, <<1008, 1008, 1, -86>>, <<1009, 1009, 1, -80>>,
       <<1010, 1010, 1, 7>>, <<1011, 1011, 1, -116>>,
       <<1013, 1013, 1, -96>>, <<1016, 1016, 1, -1>>, <<1019, 1019, 1, -1>>,
       <<1072, 1103, 1, -32>>, <<1104, 1119, 1, -80>>,
       <<1121, 1153, 2, -1>>, <<1163, 1215, 2, -1>>, <<1218, 1230, 2, -1>>,
       <<1231, 1231, 1, -15>>, <<1233, 1327, 2, -1>>,
       <<1377, 1414, 1, -48>>, <<4304, 4346, 1, 3008>>,
       <<4349, 4351, 1, 3008>>, <<5112, 5117, 1, -8>>,
       <<7296, 7296, 1, -6254>>, <<7297, 7297, 1, -6253>>,
       <<7298, 7298, 1, -6244>>, <<7299, 7300, 1, -6242>>,
       <<7301, 7301, 1, -6243>>, <<7302, 7302, 1, -6236>>,
       <<7303, 7303, 1, -6181>>, <<7304, 7304, 1, 35266>>,
       <<7545, 7545, 1, 35332>>, <<7549, 7549, 1, 3814>>,
       <<7566, 7566, 1, 35384>>, <<7681, 7829, 2, -1>>,
       <<7835, 7835, 1, -59>>, <<7841, 7935, 2, -1>>, <<7936, 7943, 1, 8>>,
       <<7952, 7957, 1, 8>>, <<7968, 7975, 1, 8>>, <<7984, 7991, 1, 8>>,
       <<8000, 8005, 1, 8>>, <<8017, 8023, 2, 8>>, <<8032, 8039, 1, 8>>,
       <<8048, 8049, 1, 74>>, <<8050, 8053, 1, 86>>, <<8054, 8055, 1, 100>>,
       <<8056, 8057, 1, 128>>, <<8058, 8059, 1, 112>>,
       <<8060, 8061, 1, 126>>, <<8112, 8113, 1, 8>>,
       <<8126, 8126, 1, -7205>>, <<8144, 8145, 1, 8>>, <<8160, 8161, 1, 8>>,
       <<8165, 8165, 1, 7>>, <<8526, 8526, 1, -28>>, <<8560, 8575, 1, -16>>,
       <<8580, 8580, 1, -1>>, <<9424, 9449, 1, -26>>,
       <<11312, 11359, 1, -48>>, <<11361, 11361, 1, -1>>,
       <<11365, 11365, 1, -10795>>, <<11366, 11366, 1, -10792>>,
       <<11368, 11372, 2, -1>>, <<11379, 11379, 1, -1>>,
       <<11382, 11382, 1, -1>>, <<11393, 11491, 2, -1>>,
       <<11500, 11502, 2, -1>>, <<11507, 11507, 1, -1>>,
       <<11520, 11557, 1, -7264>>, <<11559, 11559, 1, -7264>>,
       <<11565, 11565, 1, -7264>>, <<42561, 42605, 2, -1>>,
       <<42625, 42651, 2, -1>>, <<42787, 42799, 2, -1>>,
       <<42803, 42863, 2, -1>>, <<42874, 42876, 2, -1>>,
       <<42879, 42887, 2, -1>>, <<42892, 42892, 1, -1>>,
       <<42897, 42899, 2, -1>>, <<42900, 42900, 1, 48>>,
       <<42903, 42921, 2, -1>>, <<42933, 42947, 2, -1>>,
       <<42952, 42954, 2, -1>>, <<42961, 42961, 1, -1>>,
       <<42967, 42969, 2, -1>>, <<42998, 42998, 1, -1>>,
       <<43859, 43859, 1, -928>>, <<43888, 43967, 1, -38864>>,
       <<65345, 65370, 1, -32>>, <<66600, 66639, 1, -40>>,
       <<66776, 66811, 1, -40>>, <<66967, 67003, 2, -39>>,
       <<66968, 66976, 2, -39>>, <<66980, 66992, 2, -39>>,
       <<66996, 67000, 2, -39>>, <<67004, 67004, 1, -39>>,
       <<68800, 68850, 1, -64>>, <<71872, 71903, 1, -32>>,
       <<93792, 93823, 1, -32>>, <<125218, 125251, 1, -34>>
    >>

\* The characters str.upper() changes into several: <<code point, result>>.
UpperSpecial ==
    <<
       <<223, <<83, 83>>>>, <<329, <<700, 78>>>>, <<496, <<74, 780>>>>,
       <<912, <<921, 776, 769>>>>, <<944, <<933, 776, 769>>>>,
       <<1415, <<1333, 1362>>>>, <<7830, <<72, 817>>>>,
       <<7831, <<84, 776>>>>, <<7832, <<87, 778>>>>, <<7833, <<89, 778>>>>,
       <<7834, <<65, 702>>>>, <<8016, <<933, 787>>>>,
       <<8018, <<933, 787, 768>>>>, <<8020, <<933, 787, 769>>>>,
       <<8022, <<933, 787, 834>>>>, <<8064, <<7944, 921>>>>,
       <<8065, <<7945, 921>>>>, <<8066, <<7946, 921>>>>,
       <<8067, <<7947, 921>>>>, <<8068, <<7948, 921>>>>,
       <<8069, <<7949, 921>>>>, <<8070, <<7950, 921>>>>,
       <<8071, <<7951, 921>>>>, <<8072, <<7944, 921>>>>,
       <<8073, <<7945, 921>>>>, <<8074, <<7946, 921>>>>,
       <<8075, <<7947, 921>>>>, <<8076, <<7948, 921>>>>,
       <<8077, <<7949, 921>>>>, <<8078, <<7950, 921>>>>,
       <<8079, <<7951, 921>>>>, <<8080, <<7976, 921>>>>,
       <<8081, <<7977, 921>>>>, <<8082, <<7978, 921>>>>,
       <<8083, <<7979, 921>>>>, <<8084, <<7980, 921>>>>,
       <<8085, <<7981, 921>>>>, <<8086, <<7982, 921>>>>,
       <<8087, <<7983, 921>>>>, <<8088, <<7976, 921>>>>,
       <<8089, <<7977, 921>>>>, <<8090, <<7978, 921>>>>,
       <<8091, <<7979, 921>>>>, <<8092, <<7980, 921>>>>,
       <<8093, <<7981, 921>>>>, <<8094, <<7982, 921>>>>,
       <<8095, <<7983, 921>>>>, <<8096, <<8040, 921>>>>,
       <<8097, <<8041, 921>>>>, <<8098, <<8042, 921>>>>,
       <<8099, <<8043, 921>>>>, <<8100, <<8044, 921>>>>,
       <<8101, <<8045, 921>>>>, <<8102, <<8046, 921>>>>,
       <<8103, <<8047, 921>>>>, <<8104, <<8040, 921>>>>,
       <<8105, <<8041, 921>>>>, <<8106, <<8042, 921>>>>,
       <<8107, <<8043, 921>>>>, <<8108, <<8044, 921>>>>,
       <<8109, <<8045, 921>>>>, <<8110, <<8046, 921>>>>,
       <<8111, <<8047, 921>>>>, <<8114, <<8122, 921>>>>,
       <<8115, <<913, 921>>>>, <<8116, <<902, 921>>>>,
       <<8118, <<913, 834>>>>, <<8119, <<913, 834, 921>>>>,
       <<8124, <<913, 921>>>>, <<8130, <<8138, 921>>>>,
       <<8131, <<919, 921>>>>, <<8132, <<905, 921>>>>,
       <<8134, <<919, 834>>>>, <<8135, <<919, 834, 921>>>>,
       <<8140, <<919, 921>>>>, <<8146, <<921, 776, 768>>>>,
       <<8147, <<921, 776, 769>>>>, <<8150, <<921, 834>>>>,
       <<8151, <<921, 776, 834>>>>, <<8162, <<933, 776, 768>>>>,
       <<8163, <<933, 776, 769>>>>, <<8164, <<929, 787>>>>,
       <<8166, <<933, 834>>>>, <<8167, <<933, 776, 834>>>>,
       <<8178, <<8186, 921>>>>, <<8179, <<937, 921>>>>,
       <<8180, <<911, 921>>>>, <<8182, <<937, 834>>>>,
       <<8183, <<937, 834, 921>>>>, <<8188, <<937, 921>>>>,
       <<64256, <<70, 70>>>>, <<64257, <<70, 73>>>>, <<64258, <<70, 76>>>>,
       <<64259, <<70, 70, 73>>>>, <<64260, <<70, 70, 76>>>>,
       <<64261, <<83, 84>>>>, <<64262, <<83, 84>>>>,
       <<64275, <<1348, 1350>>>>, <<64276, <<1348, 1333>>>>,
       <<64277, <<1348, 1339>>>>, <<64278, <<1358, 1350>>>>,
       <<64279, <<1348, 1341>>>>
    >>

\* c.upper() for one character, as the code points of the result.
UpperChar(c) ==
    LET several == {k \in DOMAIN UpperSpecial : UpperSpecial[k][1] = c}
        runs == {k \in DOMAIN UpperRanges :
                    /\ UpperRanges[k][1] <= c /\ c <= UpperRanges[k][2]
                    /\ (c - UpperRanges[k][1]) % UpperRanges[k][3] = 0}
    IN  IF several # {} THEN UpperSpecial[CHOOSE k \in several : TRUE][2]
        ELSE IF runs # {} THEN <<c + UpperRanges[CHOOSE k \in runs : TRUE][4]>>
        ELSE <<c>>

RECURSIVE Upper(_)
\* str.upper()
Upper(str) ==
    IF Len(str) = 0 THEN <<>>
    ELSE UpperChar(str[1]) \o Upper(SubSeq(str, 2, Len(str)))

\* A colour element under the node: its tag and its val and lastClr attributes.
ColorForm(tag, val, lastClr) == [tag |-> tag, val |-> val, lastClr |-> lastClr]

\* element.find('.//a:<tag>'): the position of the first element with the
\* tag in document order, 0 for None.
FindForm(node, tag) ==
    IF \E i \in 1..Len(node) : node[i].tag = tag
    THEN CHOOSE i \in 1..Len(node) :
            node[i].tag = tag /\ \A j \in 1..(i - 1) : node[j].tag # tag
    ELSE 0

\* elem.get(name, default)
GetOr(a, default) == IF a.given THEN a.val ELSE default

NoColor == [present |-> FALSE, hex |-> <<>>]
ColorValue(hex) == [present |-> TRUE, hex |-> hex]

\* extract_color_value answering with the first colour element of the node.
extract_color_value_document_order(node) ==
    IF Len(node) = 0 THEN NoColor
    ELSE IF node[1].tag = "srgbClr"
         THEN ColorValue(Text("#") \o Upper(GetOr(node[1].val, Text("FFFFFF"))))
    ELSE IF node[1].tag = "schemeClr"
         THEN ColorValue(Text("scheme:") \o GetOr(node[1].val, Text("dk1")))
    ELSE IF node[1].tag = "sysClr" /\ GetOr(node[1].lastClr, <<>>) # <<>>
         THEN ColorValue(Text("#") \o Upper(node[1].lastClr.val))
    ELSE IF node[1].tag = "prstClr"
         THEN ColorValue(Text("preset:") \o GetOr(node[1].val, Text("black")))
    ELSE NoColor

\* extract_color_value.  A sysClr whose lastClr is absent or empty returns
\* nothing itself: the lookup goes on to the preset colour.
extract_color_value(node) ==
    LET srgb_clr == FindForm(node, "srgbClr")
        scheme_clr == FindForm(node, "schemeClr")
        sys_clr == FindForm(node, "sysClr")
        prst_clr == FindForm(node, "prstClr")
    IN  IF srgb_clr # 0
        THEN ColorValue(Text("#") \o Upper(GetOr(node[srgb_clr].val, Text("FFFFFF"))))
        ELSE IF scheme_clr # 0
        THEN ColorValue(Text("scheme:") \o GetOr(node[scheme_clr].val, Text("dk1")))
        ELSE IF sys_clr # 0 /\ GetOr(node[sys_clr].lastClr, <<>>) # <<>>
        THEN ColorValue(Text("#") \o Upper(node[sys_clr].lastClr.val))
        ELSE IF prst_clr # 0
        THEN ColorValue(Text("preset:") \o GetOr(node[prst_clr].val, Text("black")))
        ELSE NoColor

\* The code points of the digits 0 of Unicode; the nine code points after
\* each are its digits 1 to 9.
DecimalZeros ==
    <<
       1632, 1776, 1984, 2406, 2534, 2662, 2790, 2918, 3046, 3174, 3302,
       3430, 3558, 3664, 3792, 3872, 4160, 4240, 6112, 6160, 6470, 6608,
       6784, 6800, 6992, 7088, 7232, 7248, 42528, 43216, 43264, 43472,
       43504, 43600, 44016, 65296, 66720, 68912, 69734, 69872, 69942, 70096,
       70384, 70736, 70864, 71248, 71360, 71472, 71904, 72016, 72784, 73040,
       73120, 92768, 92864, 93008, 120782, 120792, 120802, 120812, 120822,
       123200, 123632, 125264, 130032
    >>

\* The value int(text, 16) gives a digit: 0-9, a-f and A-F, and the decimal
\* digits of every script; -1 for any other character.
DigitValue(c) ==
    LET zeros == {k \in DOMAIN DecimalZeros :
                    DecimalZeros[k] <= c /\ c <= DecimalZeros[k] + 9}
    IN  IF 48 <= c /\ c <= 57 THEN c - 48
        ELSE IF 65 <= c /\ c <= 70 THEN c - 55
        ELSE IF 97 <= c /\ c <= 102 THEN c - 87
        ELSE IF zeros # {} THEN c - DecimalZeros[CHOOSE k \in zeros : TRUE]
        ELSE -1

\* The characters int() strips from both ends of its text.
Whitespace ==
    {9, 10, 11, 12, 13, 32, 133, 160, 5760} \cup (8192..8202)
    \cup {8232, 8233, 8239, 8287, 12288}

\* int(text, 16) for a slice of at most two characters: two digits, one
\* digit, a digit after a sign or a whitespace character, a digit before a
\* whitespace character; anything else, the empty slice included, raises
\* ValueError.
IntBase16(text) ==
    LET hi == DigitValue(text[1])
        lo == DigitValue(text[2])
        Value(v) == [raised |-> FALSE, value |-> v]
        Raised == [raised |-> TRUE, value |-> 0]
    IN  IF Len(text) = 0 THEN Raised
        ELSE IF Len(text) = 1 THEN (IF hi >= 0 THEN Value(hi) ELSE Raised)
        ELSE IF hi >= 0 /\ lo >= 0 THEN Value(16 * hi + lo)
        ELSE IF hi >= 0 /\ text[2] \in Whitespace THEN Value(hi)
        ELSE IF lo >= 0 /\ text[1] \in Whitespace \cup {43} THEN Value(lo)
        ELSE IF lo >= 0 /\ text[1] = 45 THEN Value(0 - lo)
        ELSE Raised

\* text[a:b] with 0 <= a <= b, as Python clips it to the text.
Slice(text, a, b) == SubSeq(text, Min(a, Len(text)) + 1, Min(b, Len(text)))

Rgb(r, g, b) == <<r, g, b>>
MidGray == Rgb(128, 128, 128)

\* hex_to_rgb
hex_to_rgb(hex_color) ==
    LET body == IF StartsWith(hex_color, Text("#"))
                THEN SubSeq(hex_color, 2, Len(hex_color)) ELSE hex_color
        r == IntBase16(Slice(body, 0, 2))
        g == IntBase16(Slice(body, 2, 4))
        b == IntBase16(Slice(body, 4, 6))
    IN  IF StartsWith(body, Text("scheme:")) \/ StartsWith(body, Text("preset:"))
        THEN MidGray
        ELSE IF r.raised \/ g.raised \/ b.raised THEN MidGray
        ELSE Rgb(r.value, g.value, b.value)

\* color_map of extract_color_scheme, in its order.
ColorMap ==
    << <<"dk1", "text1">>, <<"lt1", "background1">>, <<"dk2", "text2">>,
       <<"lt2", "background2">>, <<"accent1", "accent1">>, <<"accent2", "accent2">>,
       <<"accent3", "accent3">>, <<"accent4", "accent4">>, <<"accent5", "accent5">>,
       <<"accent6", "accent6">>, <<"hlink", "hyperlink">>,
       <<"folHlink", "followed_hyperlink">> >>

\* clr_scheme.find('.//a:<name>'): the colour node of the first element
\* of the a:clrScheme with the name.
SchemeNode(theme, name) ==
    theme.colors[CHOOSE i \in 1..Len(theme.colors) :
                    /\ theme.colors[i][1] = name
                    /\ \A j \in 1..(i - 1) : theme.colors[j][1] # name][2]

\* extract_color_scheme: one color entry, in the order of color_map, for
\* each of its names that the theme's a:clrScheme defines and for which
\* extract_color_value returns a value ("if hex_color:"), with the value
\* and its RGB triple; the lab attribute is left out.
extract_color_scheme(theme) ==
    LET Defined(entry) ==
            \E i \in 1..Len(theme.colors) : theme.colors[i][1] = entry[1]
        HexColor(entry) == extract_color_value(SchemeNode(theme, entry[1]))
        Valued(entry) ==
            Defined(entry) /\ HexColor(entry).present /\ HexColor(entry).hex # <<>>
        found == SelectSeq(ColorMap, Valued)
    IN  [k \in 1..Len(found) |->
            [name |-> found[k][1], role |-> found[k][2],
             hex |-> HexColor(found[k]).hex,
             rgb |-> hex_to_rgb(HexColor(found[k]).hex)]]

\* The try block of extract_theme_definition.
ThemeDefinitionTry(theme) ==
    [raised |-> theme.status # "ok",
     value |-> [present |-> TRUE,
                color_palette |-> theme.status = "ok",
                color_scheme |-> IF theme.status = "ok"
                                 THEN extract_color_scheme(theme) ELSE <<>>]]

\* extract_theme_definition with the exception left to the caller.
extract_theme_definition_propagating(theme) == ThemeDefinitionTry(theme)

\* extract_theme_definition: "except Exception" prints a warning and the
\* theme_definition made before the try is returned.
extract_theme_definition(theme) ==
    [ThemeDefinitionTry(theme) EXCEPT !.raised = FALSE]

RECURSIVE Usage(_)
\* A defaultdict(int) counted up over keys, as its items() lists it: each
\* key where it was first met, with the number of its occurrences.
Usage(keys) ==
    IF keys = <<>> THEN <<>>
    ELSE LET earlier == Usage(SubSeq(keys, 1, Len(keys) - 1))
             last == keys[Len(keys)]
             at == {i \in 1..Len(earlier) : earlier[i].key = last}
         IN  IF at = {} THEN Append(earlier, [key |-> last, count |-> 1])
             ELSE [i \in 1..Len(earlier) |->
                    IF i \in at THEN [earlier[i] EXCEPT !.count = @ + 1]
                    ELSE earlier[i]]

\* compute_global_statistics: total_slides counts the slide entries;
\* layout_usage counts each under its layout_ref attribute, which no slide
\* entry has, so under 'unknown'; semantic_role_distribution counts the
\* semantic_role children that have a text.
compute_global_statistics(slide_entries) ==
    LET HasRole(e) == e.semantic_role.given /\ e.semantic_role.val # ""
        with_role == SelectSeq(slide_entries, HasRole)
    IN  [present |-> TRUE, total_slides |-> Len(slide_entries),
         layout_usage |-> Usage([k \in 1..Len(slide_entries) |-> "unknown"]),
         semantic_role_distribution |->
            Usage([k \in 1..Len(with_role) |-> with_role[k].semantic_role.val])]

(***************************************************************************)
(* Spec: one run of main on each archive below.                            *)
(***************************************************************************)
SlideRelType == RelTypePrefix \o "slide"
SlidePartNames ==
    {"ppt/slides/slide1.xml", "ppt/slides/slide2.xml", "ppt/slides/slide10.xml"}
PartStates == {"absent", "ok", "malformed"}

SldIds == {Str("rId1"), Str("rId2")}
\* The presentation part: missing, not XML, without a p:sldIdLst, or with
\* one of n entries.
PresentationsOfLen(n) ==
    {[status |-> "ok", has_sldIdLst |-> TRUE, sld_ids |-> ids] : ids \in [1..n -> SldIds]}
OtherPresentations ==
    {[status |-> st, has_sldIdLst |-> FALSE, sld_ids |-> <<>>] :
        st \in {"missing", "malformed", "ok"}}

SlideRel(id, target) == Rel(Str(id), Str(SlideRelType), target)
PresentationManifests ==
    {MissingPart, MalformedPart,
     [status |-> "ok", rels |-> <<>>],
     [status |-> "ok", rels |-> <<SlideRel("rId1", Str("slides/slide1.xml"))>>],
     [status |-> "ok", rels |-> <<SlideRel("rId1", Str("slides/slide1.xml")),
                                  SlideRel("rId2", Str("slides/slide2.xml"))>>],
     [status |-> "ok", rels |-> <<SlideRel("rId1", Str("slides/slide2.xml")),
                                  SlideRel("rId2", Str("slides/slide1.xml"))>>],
     [status |-> "ok", rels |-> <<SlideRel("rId1", Str("slides/slide10.xml")),
                                  SlideRel("rId2", Str("slides/slide2.xml"))>>],
     [status |-> "ok", rels |-> <<SlideRel("rId1", NoStr),
                                  SlideRel("rId2", Str("slides/slide2.xml"))>>]}

\* The theme part: missing; not well-formed; without colours; with a:dk1
\* and a:accent1, both giving a colour; with an a:dk1 whose system colour
\* has no last-rendered value, an a:accent1 and a second a:accent1.  colors
\* holds the children of its a:clrScheme in document order, each with the
\* colour elements below it.
Themes ==
    {[status |-> "missing", colors |-> <<>>],
     [status |-> "malformed", colors |-> <<>>],
     [status |-> "ok", colors |-> <<>>],
     [status |-> "ok",
      colors |-> << <<"dk1", <<ColorForm("sysClr", Str(Text("windowText")),
                                         Str(Text("000000")))>> >>,
                    <<"accent1", <<ColorForm("srgbClr", Str(Text("4472c4")),
                                             NoVal)>> >> >>],
     [status |-> "ok",
      colors |-> << <<"dk1", <<ColorForm("sysClr", Str(Text("windowText")),
                                         NoVal)>> >>,
                    <<"accent1", <<ColorForm("srgbClr", Str(Text("4472c4")),
                                             NoVal)>> >>,
                    <<"accent1", <<ColorForm("srgbClr", Str(Text("ed7d31")),
                                             NoVal)>> >> >>]}

NoPackage ==
    [opens |-> FALSE,
     presentation |-> [status |-> "missing", has_sldIdLst |-> FALSE, sld_ids |-> <<>>],
     pres_rels |-> MissingPart,
     theme |-> [status |-> "missing", colors |-> <<>>],
     slide_parts |-> [n \in SlidePartNames |-> "absent"]]

NoTheme == [present |-> FALSE, color_palette |-> FALSE, color_scheme |-> <<>>]
NoStatistics ==
    [present |-> FALSE, total_slides |-> 0, layout_usage |-> <<>>,
     semantic_role_distribution |-> <<>>]

NotRunning ==
    /\ theme_definition = NoTheme /\ slide_files = <<>> /\ slides = <<>>
    /\ global_statistics = NoStatistics /\ written = FALSE /\ exit_code = -1

IdlePipeline == package = NoPackage /\ pc = "idle" /\ NotRunning

\* A file that is no zip archive, or an archive with any mix of the parts.
Init ==
    /\ \/ package = NoPackage
       \/ \E n \in 0..MaxSlideIds :
            package \in [opens : {TRUE},
                         presentation : PresentationsOfLen(n) \cup OtherPresentations,
                         pres_rels : PresentationManifests,
                         theme : Themes,
                         slide_parts : [SlidePartNames -> PartStates]]
    /\ pc = "main"
    /\ NotRunning

\* main: PPTXFeatureExtractor(...) opens the archive; zipfile.ZipFile raises
\* on a file that is no archive, and main's except exits with status 1.
OpenArchive ==
    /\ pc = "main"
    /\ IF package.opens
       THEN pc' = "theme" /\ UNCHANGED exit_code
       ELSE pc' = "exited" /\ exit_code' = 1
    /\ UNCHANGED <<package, theme_definition, slide_files, slides,
                   global_statistics, written>>
    /\ UNCHANGED <<slideVars, geomVars, featVars, relVars, unitVars>>

\* extract_all_features, step B: theme_def is appended to the output tree.
\* An exception leaving any step ends the run in main's except.
ExtractThemeDefinition ==
    /\ pc = "theme"
    /\ LET theme_def == extract_theme_definition(package.theme)
       IN  IF theme_def.raised
           THEN pc' = "exited" /\ exit_code' = 1 /\ UNCHANGED theme_definition
           ELSE pc' = "discover" /\ theme_definition' = theme_def.value
                /\ UNCHANGED exit_code
    /\ UNCHANGED <<package, slide_files, slides, global_statistics, written>>
    /\ UNCHANGED <<slideVars, geomVars, featVars, relVars, unitVars>>

\* Step D, first half: slide_files = self.get_slide_files().
GetSlideFiles ==
    /\ pc = "discover"
    /\ slide_files' = get_slide_files(package)
    /\ pc' = "slides"
    /\ UNCHANGED <<package, theme_definition, slides, global_statistics,
                   written, exit_code>>
    /\ UNCHANGED <<slideVars, geomVars, featVars, relVars, unitVars>>

\* One turn of the loop "for idx, slide_file in enumerate(slide_files, 1)".
ExtractSlideFeatures ==
    /\ pc = "slides"
    /\ Len(slides) < Len(slide_files)
    /\ LET idx == Len(slides) + 1
           slide_elem == extract_slide_features(package, slide_files[idx], idx)
       IN  IF slide_elem.raised
           THEN pc' = "exited" /\ exit_code' = 1 /\ UNCHANGED slides
           ELSE slides' = Append(slides, slide_elem.value)
                /\ UNCHANGED <<pc, exit_code>>
    /\ UNCHANGED <<package, theme_definition, slide_files, global_statistics,
                   written>>
    /\ UNCHANGED <<slideVars, geomVars, featVars, relVars, unitVars>>

\* After the loop: step E appends the statistics, the tree is written to the
\* output file, and main prints its summary and returns (exit status 0).
WriteOutput ==
    /\ pc = "slides"
    /\ Len(slides) = Len(slide_files)
    /\ global_statistics' = compute_global_statistics(slides)
    /\ written' = TRUE
    /\ exit_code' = 0
    /\ pc' = "exited"
    /\ UNCHANGED <<package, theme_definition, slide_files, slides>>
    /\ UNCHANGED <<slideVars, geomVars, featVars, relVars, unitVars>>

(***************************************************************************)
(* extract_slide_dimensions and calculate_aspect_ratio.                    *)
(***************************************************************************)
\* The text of an attribute read with int(): absent, an integer literal,
\* or text that int() rejects with ValueError.
Num(v) == [given |-> TRUE, numeric |-> TRUE, val |-> v]
NotANumber == [given |-> TRUE, numeric |-> FALSE, val |-> 0]
NoText == [given |-> FALSE, numeric |-> FALSE, val |-> 0]

\* int(elem.get(name, default))
IntOf(a, default) ==
    IF ~a.given THEN [raised |-> FALSE, value |-> default]
    ELSE [raised |-> ~a.numeric, value |-> a.val]

RECURSIVE gcd(_, _)
\* math.gcd: the greatest common divisor of |a| and |b|, 0 for (0, 0).
gcd(a, b) == IF b = 0 THEN Abs(a) ELSE gcd(b, Abs(a) % Abs(b))

\* calculate_aspect_ratio with the sides written as they came.
calculate_aspect_ratio_unreduced(width, height) ==
    [raised |-> gcd(width, height) = 0, w |-> width, h |-> height]

\* calculate_aspect_ratio: f"{w}:{h}" held as the pair (w, h); the floor
\* divisions raise ZeroDivisionError when the divisor is 0.
calculate_aspect_ratio(width, height) ==
    LET divisor == gcd(width, height)
    IN  IF divisor = 0 THEN [raised |-> TRUE, w |-> 0, h |-> 0]
        ELSE [raised |-> FALSE, w |-> width \div divisor, h |-> height \div divisor]

\* A child of slide_dimensions.  Its text is held as numbers: a for width and
\* height, 1 for the '1.0' of the normalized sizes, (a, b) for the 'a:b' of
\* aspect_ratio.
DimChild(tag, a, b) == [tag |-> tag, a |-> a, b |-> b]

\* The except branch: the default width and height.
DefaultDimensions ==
    <<DimChild("width", DefaultWidth, 0), DimChild("height", DefaultHeight, 0)>>

\* extract_slide_dimensions: the children of the element it returns.  The
\* except branch runs when the part cannot be read or parsed, when int()
\* rejects cx or cy (before any child is added), and when the aspect ratio
\* raises (after width, height and the normalized sizes were added).
\* Without a p:sldSz nothing is added.
extract_slide_dimensions(part) ==
    IF part.status # "ok" THEN DefaultDimensions
    ELSE IF ~part.has_sldSz THEN <<>>
    ELSE LET width == IntOf(part.cx, DefaultWidth)
             height == IntOf(part.cy, DefaultHeight)
             aspect == calculate_aspect_ratio(width.value, height.value)
             sizes == <<DimChild("width", width.value, 0),
                        DimChild("height", height.value, 0),
                        DimChild("normalized_width", 1, 0),
                        DimChild("normalized_height", 1, 0)>>
         IN  IF width.raised \/ height.raised THEN DefaultDimensions
             ELSE IF aspect.raised THEN sizes \o DefaultDimensions
             ELSE Append(sizes, DimChild("aspect_ratio", aspect.w, aspect.h))

\* slide_width and slide_height of extract_geometry after its try block: the
\* defaults, each overwritten by the assignment that was reached before
\* int() raised.
RunCanvas(part) ==
    LET width == IntOf(part.cx, DefaultWidth)
        height == IntOf(part.cy, DefaultHeight)
    IN  IF part.status # "ok" \/ ~part.has_sldSz \/ width.raised
        THEN [w |-> DefaultWidth, h |-> DefaultHeight]
        ELSE IF height.raised THEN [w |-> width.value, h |-> DefaultHeight]
        ELSE [w |-> width.value, h |-> height.value]

\* extract_geometry on the presentation part as the archive holds it: the
\* canvas it divides by and the geometry, or the ZeroDivisionError of a
\* division by a canvas side that is 0.
RunGeometry(xfrm, part) ==
    LET canvas == RunCanvas(part)
    IN  IF (xfrm.has_off \/ xfrm.has_ext) /\ (canvas.w = 0 \/ canvas.h = 0)
        THEN [done |-> TRUE, raised |-> TRUE, canvas |-> canvas,
              geometry |-> NoGeometry]
        ELSE [done |-> TRUE, raised |-> FALSE, canvas |-> canvas,
              geometry |-> extract_geometry(xfrm,
                            [status |-> "ok", has_sldSz |-> TRUE,
                             cx |-> Attr(canvas.w), cy |-> Attr(canvas.h)])]

(***************************************************************************)
(* SpecDims: extract_slide_dimensions on a presentation part that is       *)
(* missing, malformed, without a p:sldSz, or with one whose cx and cy are  *)
(* absent, not numbers, 0, 1..MaxSide, or a size presentations use.        *)
(***************************************************************************)
UsualSides == {9144000, 6858000, 12192000, 5143500, 7772400}
SizeAttrs ==
    {NoText, NotANumber, Num(0)} \cup {Num(v) : v \in (1..MaxSide) \cup UsualSides}

DimsPart(status, has, cx, cy) ==
    [status |-> status, has_sldSz |-> has, cx |-> cx, cy |-> cy]
NoDimensions == [done |-> FALSE, children |-> <<>>]
NoRunGeometry ==
    [done |-> FALSE, raised |-> FALSE, canvas |-> [w |-> 0, h |-> 0],
     geometry |-> NoGeometry]

\* The a:xfrm of a shape of the run: one with offset and extent, one with
\* neither.
RunXfrms ==
    {[NoXfrm EXCEPT !.present = TRUE, !.has_off = TRUE, !.x = Attr(1500),
                    !.y = Attr(1200), !.has_ext = TRUE, !.cx = Attr(600),
                    !.cy = Attr(300)],
     [NoXfrm EXCEPT !.present = TRUE]}

IdleDims ==
    /\ dims_part = DimsPart("missing", FALSE, NoText, NoText)
    /\ slide_dimensions = NoDimensions
    /\ run_geometry = NoRunGeometry

InitDims ==
    /\ \/ \E st \in {"missing", "malformed", "ok"} :
            dims_part = DimsPart(st, FALSE, NoText, NoText)
       \/ \E cx \in SizeAttrs, cy \in SizeAttrs : dims_part = DimsPart("ok", TRUE, cx, cy)
    /\ slide_dimensions = NoDimensions
    /\ run_geometry = NoRunGeometry

ExtractSlideDimensions ==
    /\ ~slide_dimensions.done
    /\ slide_dimensions' =
            [done |-> TRUE, children |-> extract_slide_dimensions(dims_part)]
    /\ UNCHANGED <<dims_part, run_geometry, coreVars, colorVars, statsVars, hashVars,
                   elemVars, textVars, partVars>>

\* The slides are extracted after the document metadata, from the same
\* archive: extract_geometry reads the presentation part again.
ExtractRunGeometry ==
    /\ slide_dimensions.done
    /\ ~run_geometry.done
    /\ \E xfrm \in RunXfrms : run_geometry' = RunGeometry(xfrm, dims_part)
    /\ UNCHANGED <<dims_part, slide_dimensions, coreVars, colorVars, statsVars,
                   hashVars, elemVars, textVars, partVars>>

(***************************************************************************)
(* SpecColor: a colour node holding up to MaxForms colour elements, read   *)
(* by extract_color_value; a value that is returned goes to hex_to_rgb, as *)
(* in extract_text_run and extract_color_scheme.                           *)
(***************************************************************************)
\* The val of a literal colour: absent; six digits in either case; signed
\* digits; three digits; an e with acute accent (233) among the digits; a
\* sharp s (223); a tab (9) before each of three digits; an Arabic-Indic
\* digit three (1635) as the second digit.
LiteralVals ==
    {NoVal, Str(Text("ff0000")), Str(Text("00B050")), Str(Text("-1-1-1")),
     Str(Text("fff")), Str(Text("ff") \o <<233>> \o Text("0a1")), Str(<<223>>),
     Str(<<9, 49, 9, 50, 9, 51>>), Str(Text("1") \o <<1635>> \o Text("0000"))}

ColorForms ==
    {ColorForm("srgbClr", v, NoVal) : v \in LiteralVals}
    \cup {ColorForm("schemeClr", v, NoVal) : v \in {NoVal, Str(Text("accent1"))}}
    \cup {ColorForm("sysClr", Str(Text("windowText")), l) :
            l \in {NoVal, Str(<<>>), Str(Text("0a0b0c"))}}
    \cup {ColorForm("prstClr", v, NoVal) : v \in {NoVal, Str(Text("red"))}}
    \cup {ColorForm("hslClr", NoVal, NoVal)}

NoRgb == [done |-> FALSE, value |-> Rgb(0, 0, 0)]
NotAsked == [done |-> FALSE, present |-> FALSE, hex |-> <<>>]

IdleColor == color_node = <<>> /\ color = NotAsked /\ rgb = NoRgb

InitColor ==
    /\ \E n \in 0..MaxForms : color_node \in [1..n -> ColorForms]
    /\ color = NotAsked
    /\ rgb = NoRgb

ExtractColorValue ==
    /\ ~color.done
    /\ color' = [done |-> TRUE, present |-> extract_color_value(color_node).present,
                 hex |-> extract_color_value(color_node).hex]
    /\ UNCHANGED <<color_node, rgb, coreVars, dimsVars, statsVars, hashVars, elemVars, textVars, partVars>>

\* "if color:" guards the conversion.
HexToRgb ==
    /\ color.done /\ color.present /\ color.hex # <<>>
    /\ ~rgb.done
    /\ rgb' = [done |-> TRUE, value |-> hex_to_rgb(color.hex)]
    /\ UNCHANGED <<color_node, color, coreVars, dimsVars, statsVars, hashVars, elemVars, textVars, partVars>>

(***************************************************************************)
(* compute_global_statistics: the colour palette usage.                    *)
(***************************************************************************)
\* all_colors: the hex values kept for counting, in document order.
AllColors(found) ==
    LET Kept(hex_val) == hex_val # <<>> /\ ~StartsWith(hex_val, Text("scheme:"))
    IN  SelectSeq(found, Kept)

RECURSIVE FirstSeen(_)
\* The keys of color_counts in insertion order: each colour where it is
\* first met.
FirstSeen(all_colors) ==
    IF all_colors = <<>> THEN <<>>
    ELSE LET earlier == FirstSeen(SubSeq(all_colors, 1, Len(all_colors) - 1))
             last == all_colors[Len(all_colors)]
         IN  IF \E i \in 1..Len(earlier) : earlier[i] = last
             THEN earlier ELSE Append(earlier, last)

\* color_counts[c]
ColorCount(all_colors, c) == Cardinality({i \in 1..Len(all_colors) : all_colors[i] = c})

TopColors == 10
\* top_colors with the colours of equal count in the reverse of the order
\* they were first met, as an ascending sort read backwards gives them.
top_colors_ties_reversed(all_colors) ==
    LET keys == FirstSeen(all_colors)
        Before(i, j) ==
            \/ ColorCount(all_colors, keys[i]) > ColorCount(all_colors, keys[j])
            \/ (ColorCount(all_colors, keys[i]) = ColorCount(all_colors, keys[j]) /\ i > j)
        sorted == [k \in 1..Len(keys) |->
                    keys[CHOOSE i \in 1..Len(keys) :
                            Cardinality({j \in 1..Len(keys) : Before(j, i)}) = k - 1]]
    IN  SubSeq(sorted, 1, Min(TopColors, Len(keys)))

\* sorted(color_counts.items(), key=count, reverse=True)[:10]: by falling
\* count, colours of equal count in the order they were first met.
top_colors(all_colors) ==
    LET keys == FirstSeen(all_colors)
        Before(i, j) ==
            \/ ColorCount(all_colors, keys[i]) > ColorCount(all_colors, keys[j])
            \/ (ColorCount(all_colors, keys[i]) = ColorCount(all_colors, keys[j]) /\ i < j)
        sorted == [k \in 1..Len(keys) |->
                    keys[CHOOSE i \in 1..Len(keys) :
                            Cardinality({j \in 1..Len(keys) : Before(j, i)}) = k - 1]]
    IN  SubSeq(sorted, 1, Min(TopColors, Len(keys)))

\* f"{count / total * 100:.1f}" in tenths of a percent: the exact value
\* rounded as it stands unless it is exactly halfway between two tenths,
\* which goes where the double of count / total * 100 lies.
PercentageTenths(count, total) ==
    LET q == (count * 1000) \div total
        r == (count * 1000) % total
    IN  IF 2 * r = total
        THEN Format(FMul(FDiv(FOfInt(count), FOfInt(total)), FOfInt(100)), 10)
        ELSE IF 2 * r > total THEN q + 1 ELSE q

\* The color children of most_used_colors.
MostUsedColors(found) ==
    LET all_colors == AllColors(found)
        top == top_colors(all_colors)
    IN  [k \in 1..Len(top) |->
            [hex |-> top[k],
             count |-> ColorCount(all_colors, top[k]),
             percentage |-> PercentageTenths(ColorCount(all_colors, top[k]),
                                             Len(all_colors))]]

\* color_diversity of compute_slide_features: the distinct hex values kept,
\* over 10 and at most 1.0, as f"{...:.2f}" writes it, in hundredths.
ColorDiversity(found) ==
    LET colors == {found[i] : i \in {j \in 1..Len(found) :
                        found[j] # <<>> /\ ~StartsWith(found[j], Text("scheme:"))}}
    IN  Min(Cardinality(colors) * 10, 100)

(***************************************************************************)
(* SpecStats: the colour ranking over up to MaxColors color elements that  *)
(* hold literal values, scheme references and preset references, and over  *)
(* a palette of eleven colours followed by up to MaxColors more elements.   *)
(***************************************************************************)
HexValues ==
    {Text("#FF0000"), Text("#00B050"), Text("scheme:accent1"), Text("preset:red")}
LongPalette ==
    <<Text("#000001"), Text("#000002"), Text("#000003"), Text("#000004"),
      Text("#000005"), Text("#000006"), Text("#000007"), Text("#000008"),
      Text("#000009"), Text("#00000A"), Text("#00000B")>>
LongTail == {Text("#000001"), Text("#00000B"), Text("scheme:accent1")}
NoRanking == [done |-> FALSE, colors |-> <<>>]

NoDiversity == [done |-> FALSE, hundredths |-> 0]

IdleStats ==
    /\ training_colors = <<>>
    /\ most_used_colors = NoRanking
    /\ color_diversity = NoDiversity

InitStats ==
    /\ \E n \in 0..MaxColors :
        \/ training_colors \in [1..n -> HexValues]
        \/ \E tail \in [1..n -> LongTail] : training_colors = LongPalette \o tail
    /\ most_used_colors = NoRanking
    /\ color_diversity = NoDiversity

ComputeGlobalStatistics ==
    /\ ~most_used_colors.done
    /\ most_used_colors' = [done |-> TRUE, colors |-> MostUsedColors(training_colors)]
    /\ UNCHANGED <<training_colors, color_diversity, coreVars, dimsVars, colorVars,
                   hashVars, elemVars, textVars, partVars>>

\* compute_slide_features on the one slide of the deck, whose color elements
\* are those of the training data.
ComputeColorDiversity ==
    /\ ~color_diversity.done
    /\ color_diversity' = [done |-> TRUE, hundredths |-> ColorDiversity(training_colors)]
    /\ UNCHANGED <<training_colors, most_used_colors, coreVars, dimsVars, colorVars,
                   hashVars, elemVars, textVars, partVars>>

(***************************************************************************)
(* compute_file_hash and compute_slide_hash.                               *)
(*                                                                         *)
(* A byte string is held as its runs of equal bytes, <<[byte, len], ...>>  *)
(* with neighbouring runs of different bytes, so that files longer than    *)
(* the 4096-byte chunk stay small values.  SHA-256 is held symbolically:   *)
(* the state of a hash object is the bytes it has absorbed and a digest is *)
(* the term sha256(bytes), equal for equal bytes.                          *)
(***************************************************************************)
Run(b, n) == [byte |-> b, len |-> n]

\* a + b on byte strings
Concat(a, b) ==
    IF a = <<>> THEN b
    ELSE IF b = <<>> THEN a
    ELSE IF a[Len(a)].byte = b[1].byte
         THEN SubSeq(a, 1, Len(a) - 1)
              \o <<Run(b[1].byte, a[Len(a)].len + b[1].len)>> \o Tail(b)
    ELSE a \o b

RECURSIVE Take(_, _)
\* data[:n]
Take(data, n) ==
    IF n = 0 \/ data = <<>> THEN <<>>
    ELSE IF data[1].len <= n THEN <<data[1]>> \o Take(Tail(data), n - data[1].len)
    ELSE <<Run(data[1].byte, n)>>

RECURSIVE Drop(_, _)
\* data[n:]
Drop(data, n) ==
    IF n = 0 \/ data = <<>> THEN data
    ELSE IF data[1].len <= n THEN Drop(Tail(data), n - data[1].len)
    ELSE <<Run(data[1].byte, data[1].len - n)>> \o Tail(data)

\* hashlib.sha256(): nothing absorbed yet.
sha256_new == <<>>
\* A hash object that forgets what it absorbed before each update.
sha256_update_restarting(absorbed, data) == data
\* sha256.update(data)
sha256_update(absorbed, data) == Concat(absorbed, data)
HashChars == 16
\* sha256.hexdigest()[:16]
hexdigest_prefix(absorbed) == [sha256 |-> absorbed, chars |-> HashChars]

ChunkSize == 4096
RECURSIVE ReadChunks(_, _)
\* for chunk in iter(lambda: f.read(4096), b''): sha256.update(chunk)
\* with unread the bytes of the file after the read position.
ReadChunks(unread, absorbed) ==
    LET chunk == Take(unread, ChunkSize)
    IN  IF chunk = <<>> THEN absorbed
        ELSE ReadChunks(Drop(unread, ChunkSize), sha256_update(absorbed, chunk))

\* compute_file_hash
compute_file_hash(file) == hexdigest_prefix(ReadChunks(file, sha256_new))

\* compute_slide_hash
compute_slide_hash(slide_xml) == hexdigest_prefix(sha256_update(sha256_new, slide_xml))

(***************************************************************************)
(* SpecHash: one file of up to MaxRuns runs, hashed in chunks, and two     *)
(* slide parts hashed in either order.                                     *)
(***************************************************************************)
ByteValues == {60, 62}
RunLengths == {1, 4095, 4096, 4097, 8192}
Runs == {Run(b, n) : b \in ByteValues, n \in RunLengths}
BytesOfRuns(n) ==
    {data \in [1..n -> Runs] : \A i \in 1..(n - 1) : data[i].byte # data[i + 1].byte}
SlideXmls == {<<Run(60, 1)>>, <<Run(60, 1), Run(62, 1)>>, <<Run(60, 4097)>>}
SlideIndexes == {1, 2}
NoHash == [done |-> FALSE, text |-> hexdigest_prefix(<<>>)]
Hashed(text) == [done |-> TRUE, text |-> text]

IdleHash ==
    /\ pptx_bytes = <<>>
    /\ slide_xmls = [i \in SlideIndexes |-> <<>>]
    /\ file_hash = NoHash
    /\ slide_hashes = [i \in SlideIndexes |-> NoHash]

InitHash ==
    /\ \E n \in 0..MaxRuns : pptx_bytes \in BytesOfRuns(n)
    /\ slide_xmls \in [SlideIndexes -> SlideXmls]
    /\ file_hash = NoHash
    /\ slide_hashes = [i \in SlideIndexes |-> NoHash]

ComputeFileHash ==
    /\ ~file_hash.done
    /\ file_hash' = Hashed(compute_file_hash(pptx_bytes))
    /\ UNCHANGED <<pptx_bytes, slide_xmls, slide_hashes, coreVars, dimsVars,
                   colorVars, statsVars, elemVars, textVars, partVars>>

ComputeSlideHash ==
    \E slide_index \in SlideIndexes :
        /\ ~slide_hashes[slide_index].done
        /\ slide_hashes' =
                [slide_hashes EXCEPT ![slide_index] = Hashed(compute_slide_hash(slide_xmls[slide_index]))]
        /\ UNCHANGED <<pptx_bytes, slide_xmls, file_hash, coreVars, dimsVars,
                       colorVars, statsVars, elemVars, textVars, partVars>>

(***************************************************************************)
(* The element extractors in detail: identifier, geometry and fill of the  *)
(* element each child of a p:spTree yields.  The children here hold no     *)
(* further children; the placeholder, stroke, text body, media reference,  *)
(* table and chart definitions and alt text an element also carries are    *)
(* left out.                                                               *)
(***************************************************************************)
DecimalDigits == "0123456789"
RECURSIVE IntStr(_)
\* str(n) for n >= 0
IntStr(n) ==
    IF n < 10 THEN CharAt(DecimalDigits, n + 1)
    ELSE IntStr(n \div 10) \o CharAt(DecimalDigits, (n % 10) + 1)

\* A child of the p:spTree.
\*   named    it has its naming element (p:nvSpPr, p:nvPicPr, ...)
\*   cnv      the naming element holds a p:cNvPr
\*   id       the id attribute of that p:cNvPr
\*   content  graphicFrame: holds a c:chart, an a:tbl, or neither
\*   xfrm     the first a:xfrm under the child
\*   sp_pr    it has a p:spPr; solid: the colour elements of the a:solidFill
\*            under it (has_solid); other: the next fill element under it
SourceChild(kind, named, cnv, id, content, xfrm, sp_pr, has_solid, solid, other) ==
    [kind |-> kind, named |-> named, cnv |-> cnv, id |-> id, content |-> content,
     xfrm |-> xfrm, sp_pr |-> sp_pr, has_solid |-> has_solid, solid |-> solid,
     other |-> other]

NoFill == [present |-> FALSE, type |-> "", color |-> NoVal]
Fill(type, fill_color) == [present |-> TRUE, type |-> type, color |-> fill_color]

\* extract_fill_properties, the gradient stops left out.
extract_fill_properties(shape) ==
    LET solid_color == extract_color_value(shape.solid)
    IN  IF ~shape.sp_pr THEN Fill("none", NoVal)
        ELSE IF shape.has_solid /\ solid_color.present /\ solid_color.hex # <<>>
             THEN Fill("solid", Str(solid_color.hex))
        ELSE IF shape.other = "gradFill" THEN Fill("gradient", NoVal)
        ELSE IF shape.other = "pattFill" THEN Fill("pattern", NoVal)
        ELSE IF shape.other = "blipFill" THEN Fill("image", NoVal)
        ELSE IF shape.other = "noFill" THEN Fill("none", NoVal)
        ELSE Fill("default", NoVal)

\* An <element>: its id attribute, type, z_order, geometry child, fill child,
\* and the child of the tree it was made from.
ElementRecord(id, type, z_order, geometry, fill, src) ==
    [id |-> id, type |-> type, z_order |-> z_order, geometry |-> geometry,
     fill |-> fill, src |-> src]

\* "if xfrm is not None: element.append(self.extract_geometry(xfrm))"
GeometryChild(child, pres) ==
    IF child.xfrm.present THEN extract_geometry(child.xfrm, pres) ELSE NoGeometry

\* c_nv_pr.get('id', str(z_order)) if c_nv_pr is not None else str(z_order)
IdOrZOrder(child, z_order) ==
    IF child.cnv /\ child.id.given THEN Str(child.id.val) ELSE Str(IntStr(z_order))

\* extract_shape_element that gives up a shape without a transform.
ShapeElementNeedingTransform(child, src, z_order, pres) ==
    IF ~child.named \/ ~child.xfrm.present THEN None
    ELSE Some(ElementRecord(IdOrZOrder(child, z_order), "textbox", z_order,
                            GeometryChild(child, pres),
                            extract_fill_properties(child), src))

\* extract_shape_element
ShapeElement(child, src, z_order, pres) ==
    IF ~child.named THEN None
    ELSE Some(ElementRecord(IdOrZOrder(child, z_order), "textbox", z_order,
                            GeometryChild(child, pres),
                            extract_fill_properties(child), src))

\* extract_picture_element
PictureElement(child, src, z_order, pres) ==
    IF ~child.named THEN None
    ELSE Some(ElementRecord(IdOrZOrder(child, z_order), "picture", z_order,
                            GeometryChild(child, pres), NoFill, src))

\* extract_graphic_frame with extract_chart_element and
\* extract_table_element: none of the three sets an id attribute, and the
\* other graphic frames get no geometry.
GraphicFrameElement(child, src, z_order, pres) ==
    IF child.content = "chart"
    THEN Some(ElementRecord(NoStr, "chart", z_order, GeometryChild(child, pres), NoFill, src))
    ELSE IF child.content = "tbl"
    THEN Some(ElementRecord(NoStr, "table", z_order, GeometryChild(child, pres), NoFill, src))
    ELSE Some(ElementRecord(NoStr, "graphic", z_order, NoGeometry, NoFill, src))

\* extract_group_element for a group without shapes in it: no id attribute.
GroupElement(child, src, z_order, pres) ==
    Some(ElementRecord(NoStr, "group", z_order, GeometryChild(child, pres), NoFill, src))

ElementOf(child, src, z_order, pres) ==
    CASE child.kind = "sp" -> ShapeElement(child, src, z_order, pres)
      [] child.kind = "pic" -> PictureElement(child, src, z_order, pres)
      [] child.kind = "graphicFrame" -> GraphicFrameElement(child, src, z_order, pres)
      [] child.kind = "grpSp" -> GroupElement(child, src, z_order, pres)

RECURSIVE ElementPass(_, _, _, _, _)
\* The loops of extract_slide_elements over the children at the positions
\* cands, as ExtractPass.
ElementPass(tree, cands, acc, z_order, pres) ==
    IF cands = <<>> THEN acc
    ELSE LET elem == ElementOf(tree[Head(cands)], Head(cands), z_order, pres)
         IN  IF elem.some
             THEN ElementPass(tree, Tail(cands), Append(acc, elem.elem), z_order + 1, pres)
             ELSE ElementPass(tree, Tail(cands), acc, z_order, pres)

\* The positions of the children of one tag, in document order.
OfKind(tree, kind) ==
    LET Hit(i) == tree[i].kind = kind IN SelectSeq([i \in 1..Len(tree) |-> i], Hit)

\* extract_slide_elements on the children tree.
SlideElements(tree, pres) ==
    ElementPass(tree,
                OfKind(tree, "sp") \o OfKind(tree, "pic")
                    \o OfKind(tree, "graphicFrame") \o OfKind(tree, "grpSp"),
                <<>>, 1, pres)

(***************************************************************************)
(* SpecElement: extract_slide_elements on up to MaxChildren children:      *)
(* shapes and pictures with and without naming element, p:cNvPr and id,    *)
(* with and without a transform, shapes with the fills below; the three    *)
(* graphic frames and a group, each with a p:cNvPr id.                     *)
(***************************************************************************)
\* A transform whose a:off lacks its x and whose a:ext lacks its cy.
PartialXfrm ==
    [present |-> TRUE, has_off |-> TRUE, x |-> NoAttr, y |-> Attr(3429000),
     has_ext |-> TRUE, cx |-> Attr(4572000), cy |-> NoAttr, rot |-> NoAttr,
     flipH |-> FALSE, flipV |-> FALSE]
ChildXfrms == {NoXfrm, PartialXfrm}
\* No p:spPr; a solid fill with a colour form that is not resolved; a solid
\* fill with a literal; a gradient fill; a p:spPr without fill.
ChildFills ==
    {<<FALSE, FALSE, <<>>, "none">>,
     <<TRUE, TRUE, <<ColorForm("hslClr", NoVal, NoVal)>>, "none">>,
     <<TRUE, TRUE, <<ColorForm("srgbClr", Str(Text("ff0000")), NoVal)>>, "none">>,
     <<TRUE, FALSE, <<>>, "gradFill">>}
\* The naming element: absent; without p:cNvPr; p:cNvPr without id; with id.
ChildNames ==
    {<<FALSE, FALSE, NoStr>>, <<TRUE, FALSE, NoStr>>, <<TRUE, TRUE, NoStr>>,
     <<TRUE, TRUE, Str("7")>>}
SourceChildren ==
    {SourceChild("sp", n[1], n[2], n[3], "none", x, f[1], f[2], f[3], f[4]) :
        n \in ChildNames, x \in ChildXfrms, f \in ChildFills}
    \cup {SourceChild("pic", n[1], n[2], n[3], "none", x, FALSE, FALSE, <<>>, "none") :
            n \in ChildNames, x \in ChildXfrms}
    \cup {SourceChild("graphicFrame", TRUE, TRUE, Str("4"), c, x, FALSE, FALSE, <<>>, "none") :
            c \in {"chart", "tbl", "other"}, x \in ChildXfrms}
    \cup {SourceChild("grpSp", TRUE, TRUE, Str("5"), "none", x, FALSE, FALSE, <<>>, "none") :
            x \in ChildXfrms}

NoElements == [done |-> FALSE, elems |-> <<>>]
IdleElement == shape_tree = <<>> /\ element_list = NoElements

InitElement ==
    /\ \E n \in 0..MaxChildren : shape_tree \in [1..n -> SourceChildren]
    /\ element_list = NoElements

ExtractElements ==
    /\ ~element_list.done
    /\ element_list' = [done |-> TRUE, elems |-> SlideElements(shape_tree, NoPresentation)]
    /\ UNCHANGED <<shape_tree, coreVars, dimsVars, colorVars, statsVars, hashVars, textVars, partVars>>

(***************************************************************************)
(* extract_text_body and extract_paragraph: the paragraphs and runs of a   *)
(* text body.  Of a run only its text is kept, of a paragraph only its     *)
(* runs; the formatting children are left out.                             *)
(***************************************************************************)
\* An a:p: the a:t of each of its a:r (NoStr: the run has no a:t), and
\* whether it holds an a:endParaRPr.
Paragraph(runs, end_para) == [runs |-> runs, end_para |-> end_para]

\* A text_run record.
TextRun(idx, text) == [idx |-> idx, text |-> text]

\* extract_text_run: idx and the text, '' when the a:t is absent or empty.
extract_text_run(r, idx) == TextRun(idx, GetOr(r, ""))

\* extract_paragraph adding the run of the end-of-paragraph marker also to
\* paragraphs that have runs.
extract_paragraph_always_closing(p, idx) ==
    LET run_elems == [k \in 1..Len(p.runs) |-> extract_text_run(p.runs[k], k - 1)]
    IN  [idx |-> idx,
         runs |-> IF p.end_para THEN Append(run_elems, TextRun(0, "")) ELSE run_elems]

\* extract_paragraph
extract_paragraph(p, idx) ==
    LET run_elems == [k \in 1..Len(p.runs) |-> extract_text_run(p.runs[k], k - 1)]
    IN  [idx |-> idx,
         runs |-> IF Len(p.runs) = 0 /\ p.end_para
                  THEN Append(run_elems, TextRun(0, "")) ELSE run_elems]

\* extract_text_body: the paragraph children of text_body.
extract_text_body(body) == [k \in 1..Len(body) |-> extract_paragraph(body[k], k - 1)]

(***************************************************************************)
(* SpecText: extract_text_body on up to MaxParagraphs paragraphs of up to  *)
(* MaxTextRuns runs each.                                                  *)
(***************************************************************************)
RunTexts == {NoStr, Str("Hi")}
Paragraphs ==
    UNION {{Paragraph(runs, e) : runs \in [1..n -> RunTexts], e \in BOOLEAN} :
            n \in 0..MaxTextRuns}
NoTextBody == [done |-> FALSE, paragraphs |-> <<>>]
IdleText == tx_body = <<>> /\ text_body = NoTextBody

InitText ==
    /\ \E n \in 0..MaxParagraphs : tx_body \in [1..n -> Paragraphs]
    /\ text_body = NoTextBody

ExtractTextBody ==
    /\ ~text_body.done
    /\ text_body' = [done |-> TRUE, paragraphs |-> extract_text_body(tx_body)]
    /\ UNCHANGED <<tx_body, coreVars, dimsVars, colorVars, statsVars, hashVars,
                   elemVars, partVars>>

(***************************************************************************)
(* The parts a slide refers to: the has_notes flag of                      *)
(* extract_slide_metadata and the chart_definition of                      *)
(* extract_chart_element, over an archive of named parts.  Of a chart      *)
(* definition the model keeps the chart_type; title, legend and series are *)
(* left out.                                                               *)
(***************************************************************************)
RECURSIVE Replace(_, _, _)
\* str.replace(old, new): every occurrence, left to right.
Replace(str, old, new) ==
    IF Len(str) < Len(old) THEN str
    ELSE IF SubSeq(str, 1, Len(old)) = old
         THEN new \o Replace(SubSeq(str, Len(old) + 1, Len(str)), old, new)
         ELSE SubSeq(str, 1, 1) \o Replace(SubSeq(str, 2, Len(str)), old, new)

\* zip_file.read(name): the part stored under exactly that name; a name the
\* archive does not hold raises KeyError, as a missing part does.
ReadPart(archive, name) ==
    IF name \in DOMAIN archive THEN archive[name] ELSE MissingPart

\* rels_file = slide_part_file.replace('.xml', '.xml.rels')
RelsFileOf(file) == Replace(file, ".xml", ".xml.rels")

\* has_notes of extract_slide_metadata.
extract_slide_metadata(archive, file) ==
    [done |-> TRUE,
     has_notes |-> has_relationship_type(ReadPart(archive, RelsFileOf(file)),
                                         "notesSlide").value]

\* A plot area child's tag, in the chart namespace.
ChartNs == "http://schemas.openxmlformats.org/drawingml/2006/chart"
ChartTag(name) == "{" \o ChartNs \o "}" \o name

\* child.tag.split('}')[1]: the text after the first '}' up to the next
\* one; IndexError when the tag has no '}'.
SplitSecond(tag) ==
    LET at == {i \in 1..Len(tag) : CharAt(tag, i) = "}"}
        first == CHOOSE i \in at : \A j \in at : i <= j
        later == {i \in at : i > first}
        stop == IF later = {} THEN Len(tag)
                ELSE (CHOOSE i \in later : \A j \in later : i <= j) - 1
    IN  IF at = {} THEN [raised |-> TRUE, value |-> ""]
        ELSE [raised |-> FALSE, value |-> SubSeq(tag, first + 1, stop)]

NoChartDefinition == [present |-> FALSE, chart_type |-> NoStr]

\* extract_chart_definition: the chart_type of the first child of c:plotArea
\* whose tag contains 'Chart'; every exception ends the try block and the
\* chart_definition built so far is returned.
extract_chart_definition(archive, chart_file) ==
    LET part == ReadPart(archive, chart_file)
        hits == {k \in 1..Len(part.plot_area) : Contains(part.plot_area[k], "Chart")}
        child == part.plot_area[CHOOSE k \in hits : \A j \in hits : k <= j]
    IN  IF part.status # "ok" THEN [present |-> TRUE, chart_type |-> NoStr]
        ELSE IF ~part.has_plot_area \/ hits = {} \/ SplitSecond(child).raised
        THEN [present |-> TRUE, chart_type |-> NoStr]
        ELSE [present |-> TRUE, chart_type |-> Str(SplitSecond(child).value)]

\* The chart reference of extract_chart_element: "if rid:" and
\* "if chart_file:" guard the chart definition, which is read from
\* f'ppt/{chart_file}'.
ChartReference(archive, file, rid) ==
    LET chart_file == get_relationship_target(ReadPart(archive, RelsFileOf(file)),
                                              rid).value
    IN  [done |-> TRUE, type |-> "chart",
         chart_definition |->
            IF rid.given /\ rid.val # "" /\ chart_file.given /\ chart_file.val # ""
            THEN extract_chart_definition(archive, "ppt/" \o chart_file.val)
            ELSE NoChartDefinition]

(***************************************************************************)
(* SpecParts: the two extractions for one slide part of an archive that    *)
(* may hold a relationship manifest under ppt/slides/_rels/, one beside    *)
(* the slide part, and a chart part.                                       *)
(***************************************************************************)
SlideFiles == {"ppt/slides/slide1.xml", "ppt/slides/slide2.xml"}
ChartPartName == "ppt/charts/chart1.xml"

\* The manifest of part dir/base as the package format names it:
\* dir/_rels/base.rels.
PartRelsName(name) ==
    LET slash == LastIndexOf(name, "/")
    IN  SubSeq(name, 1, slash) \o "_rels/" \o SubSeq(name, slash + 1, Len(name))
            \o ".rels"

ManifestRels ==
    {Rel(Str("rId1"), Str(RelTypePrefix \o "notesSlide"),
         Str("../notesSlides/notesSlide1.xml")),
     Rel(Str("rId2"), Str(RelTypePrefix \o "chart"), Str("../charts/chart1.xml")),
     Rel(Str("rId2"), Str(RelTypePrefix \o "chart"), Str("charts/chart1.xml"))}
Manifests ==
    {MissingPart, MalformedPart}
    \cup {[status |-> "ok", rels |-> r] :
            r \in UNION {[1..n -> ManifestRels] : n \in 0..MaxManifest}}

PlotAreas ==
    {<<>>, <<ChartTag("layout")>>,
     <<ChartTag("layout"), ChartTag("barChart"), ChartTag("lineChart")>>,
     <<ChartTag("lineChart"), ChartTag("barChart")>>,
     <<"pieChart">>}
ChartParts ==
    {MissingPart, MalformedPart,
     [status |-> "ok", has_plot_area |-> FALSE, plot_area |-> <<>>]}
    \cup {[status |-> "ok", has_plot_area |-> TRUE, plot_area |-> c] : c \in PlotAreas}

\* The r:id of the frame's c:chart: absent, listed, or not listed.
ChartRids == {NoStr, Str("rId2"), Str("rId9")}

\* The archive with the three parts under their names.
Archive(file, standard, beside, chart) ==
    [n \in {PartRelsName(file), RelsFileOf(file), ChartPartName} |->
        IF n = PartRelsName(file) THEN standard
        ELSE IF n = RelsFileOf(file) THEN beside ELSE chart]

NoMetadata == [done |-> FALSE, has_notes |-> FALSE]
NoChartElement == [done |-> FALSE, type |-> "", chart_definition |-> NoChartDefinition]

IdleParts ==
    /\ zip_file = <<>>
    /\ slide_part_file = ""
    /\ chart_frame = NoStr
    /\ slide_metadata = NoMetadata
    /\ chart_element = NoChartElement

InitParts ==
    /\ slide_part_file \in SlideFiles
    /\ \E standard \in Manifests, beside \in Manifests, chart \in ChartParts :
        zip_file = Archive(slide_part_file, standard, beside, chart)
    /\ chart_frame \in ChartRids
    /\ slide_metadata = NoMetadata
    /\ chart_element = NoChartElement

\* extract_slide_features calls extract_slide_metadata before
\* extract_slide_elements, which reaches the chart frame.
ExtractSlideMetadata ==
    /\ ~slide_metadata.done
    /\ slide_metadata' = extract_slide_metadata(zip_file, slide_part_file)
    /\ UNCHANGED <<zip_file, slide_part_file, chart_frame, chart_element, coreVars,
                   dimsVars, colorVars, statsVars, hashVars, elemVars, textVars>>

ExtractChartElement ==
    /\ slide_metadata.done
    /\ ~chart_element.done
    /\ chart_element' = ChartReference(zip_file, slide_part_file, chart_frame)
    /\ UNCHANGED <<zip_file, slide_part_file, chart_frame, slide_metadata, coreVars,
                   dimsVars, colorVars, statsVars, hashVars, elemVars, textVars>>

(***************************************************************************)
(* Properties of the computed features (SpecFeatures).                     *)
(***************************************************************************)
\* The elements of the slide of the given type, at any depth.
NumberOf(type) ==
    Cardinality({k \in 1..Len(AllElements(elements)) :
                    AllElements(elements)[k].type = type})

\* The slide holds exactly one element, and its centre
\* (x + width/2, y + height/2) is exactly (0.5, 0.5).
SingleCentred ==
    /\ Len(elements) = 1
    /\ elements[1].children = <<>>
    /\ elements[1].geometry.present
    /\ elements[1].geometry.has_pos /\ elements[1].geometry.has_size
    /\ 2 * elements[1].geometry.x + elements[1].geometry.width = Micro
    /\ 2 * elements[1].geometry.y + elements[1].geometry.height = Micro

\* C2: layout_balance_horizontal and layout_balance_vertical are both 1.0
\* for a slide with zero elements, and both 1.0 for a slide with exactly one
\* element centred exactly at (0.5, 0.5).
C2_BalanceOneWhenEmptyOrCentred ==
    (computed.present /\ (elements = <<>> \/ SingleCentred))
        => /\ computed.layout_balance_horizontal = 100
           /\ computed.layout_balance_vertical = 100

\* C3: text_to_image_ratio is texts / (pictures + charts) when that
\* denominator is positive, +infinity when it is 0 and there is a text
\* element, 0 when there is neither; it always has one of these values.
C3_TextToImageRatio ==
    computed.present =>
        LET r == computed.text_to_image_ratio
            texts == NumberOf("textbox")
            visuals == NumberOf("picture") + NumberOf("chart")
        IN  /\ visuals > 0 =>
                /\ ~r.inf /\ r.den > 0
                /\ r.num * visuals = texts * r.den
                /\ r.hundredths = Fmt2(texts, visuals)
            /\ (visuals = 0 /\ texts > 0) => r.inf
            /\ (visuals = 0 /\ texts = 0) =>
                ~r.inf /\ r.num = 0 /\ r.den > 0 /\ r.hundredths = 0

\* A text inside a group beside a chart: the ratio 1 / 1 has been computed.
C3_Witness ==
    /\ computed.present
    /\ NumberOf("textbox") > 0 /\ NumberOf("chart") > 0
    /\ NumberOf("picture") = 0
    /\ ~computed.text_to_image_ratio.inf
    /\ computed.text_to_image_ratio.hundredths = 100 * NumberOf("textbox")

(***************************************************************************)
(* Properties of one slide (SpecSlide).                                    *)
(***************************************************************************)
\* How many nodes of the slide's content tree are charts, tables, pictures.
CountNodes(kind, content) ==
    Cardinality({i \in DOMAIN slide_root.sp_tree :
                    /\ slide_root.sp_tree[i].kind = kind
                    /\ slide_root.sp_tree[i].content = content})
SlideCharts == CountNodes("graphicFrame", "chart")
SlideTables == CountNodes("graphicFrame", "tbl")
SlidePictures == CountNodes("pic", "none")

\* C1: the role is title_slide for index 1; otherwise data_visualization
\* with at least one chart; otherwise table_content with at least one
\* table; otherwise image_gallery with more than 2 pictures; otherwise
\* content.
C1_RoleFirstMatchWins ==
    spc # "start" =>
        semantic_role =
            CASE index = 1 -> "title_slide"
              [] index # 1 /\ SlideCharts >= 1 -> "data_visualization"
              [] index # 1 /\ SlideCharts = 0 /\ SlideTables >= 1 -> "table_content"
              [] index # 1 /\ SlideCharts = 0 /\ SlideTables = 0
                    /\ SlidePictures > 2 -> "image_gallery"
              [] OTHER -> "content"

\* C1 witness: a non-first slide with one chart and 3 pictures was
\* classified data_visualization.
C1_Witness ==
    /\ spc # "start" /\ index = 2
    /\ SlideCharts = 1 /\ SlidePictures = 3
    /\ semantic_role = "data_visualization"

\* C5: the z-orders of the slide's top-level elements are 1, 2, ..., k in
\* list order.
C5_ZOrderContiguous ==
    spc = "elements" =>
        \A k \in 1..Len(elements_elem) : elements_elem[k].z_order = k

\* C5 witness: a shape without its naming element was dropped, and a
\* later child of the same pass and one of a later pass were emitted.
C5_Witness ==
    /\ spc = "elements"
    /\ Len(elements_elem) >= 2
    /\ \E i, j \in DOMAIN slide_root.sp_tree :
        /\ i < j
        /\ slide_root.sp_tree[i].kind = "sp" /\ ~slide_root.sp_tree[i].named
        /\ slide_root.sp_tree[j].kind = "sp" /\ slide_root.sp_tree[j].named
        /\ \E k \in 1..Len(elements_elem) : elements_elem[k].src = j
    /\ \E k \in 1..Len(elements_elem) : elements_elem[k].type = "group"

\* The number of the visit extract_slide_elements pays to the node at
\* position i of the content tree.
VisitNumber(i) ==
    CHOOSE n \in 1..Len(PassOrder(slide_root.sp_tree)) :
        PassOrder(slide_root.sp_tree)[n] = i

\* C17: the counter advances for every child visited, so every element
\* carries the number of the visit that produced it, dropped children
\* counted.
C17_DroppedChildKeepsSlot ==
    spc = "elements" =>
        \A k \in 1..Len(elements_elem) :
            elements_elem[k].z_order = VisitNumber(elements_elem[k].src)

\* The pass that emits a node of the given kind.
PassOf(kind) ==
    CASE kind = "sp" -> 1
      [] kind = "pic" -> 2
      [] kind = "graphicFrame" -> 3
      [] kind = "grpSp" -> 4
SourceKind(elem) == slide_root.sp_tree[elem.src].kind

\* C18: in the output shapes come before pictures, pictures before graphic
\* frames, graphic frames before groups, and the elements of one pass keep
\* their source order.
C18_FourOrderedPasses ==
    spc = "elements" =>
        \A k, l \in 1..Len(elements_elem) :
            k < l =>
                /\ PassOf(SourceKind(elements_elem[k])) <= PassOf(SourceKind(elements_elem[l]))
                /\ elements_elem[k].z_order < elements_elem[l].z_order
                /\ SourceKind(elements_elem[k]) = SourceKind(elements_elem[l])
                        => elements_elem[k].src < elements_elem[l].src

\* A group, a graphic frame, a picture and a shape stand in this order in
\* the source and come out in the opposite order.
C18_Witness ==
    /\ spc = "elements"
    /\ Len(slide_root.sp_tree) = 4
    /\ slide_root.sp_tree[1].kind = "grpSp"
    /\ slide_root.sp_tree[2].kind = "graphicFrame"
    /\ slide_root.sp_tree[3].kind = "pic"
    /\ slide_root.sp_tree[4].kind = "sp"
    /\ Len(elements_elem) = 4
    /\ \A k \in 1..4 : elements_elem[k].src = 5 - k

\* C19: the children of every group carry 1..m in their order, whatever the
\* z-order of the group, and the element after a group carries the group's
\* z-order plus one.
C19_GroupChildrenLocalCounter ==
    spc = "elements" =>
        \A k \in 1..Len(elements_elem) :
            elements_elem[k].type = "group" =>
                /\ \A c \in 1..Len(elements_elem[k].children) :
                        elements_elem[k].children[c].z_order = c
                /\ k < Len(elements_elem) =>
                        elements_elem[k + 1].z_order = elements_elem[k].z_order + 1

\* A group with a child was emitted with a z-order above 1 and another
\* element follows it.
C19_Witness ==
    /\ spc = "elements"
    /\ \E k \in 1..Len(elements_elem) :
        /\ elements_elem[k].type = "group"
        /\ elements_elem[k].z_order > 1
        /\ Len(elements_elem[k].children) >= 1
        /\ k < Len(elements_elem)

\* The records the output tree holds for the node at position i: among the
\* top-level elements and among the children of each of them.
RecordsOf(i) ==
    Cardinality({k \in 1..Len(elements_elem) : elements_elem[k].src = i})
    + Cardinality({kc \in (1..Len(elements_elem)) \X (1..MaxNodes) :
                    /\ kc[2] <= Len(elements_elem[kc[1]].children)
                    /\ elements_elem[kc[1]].children[kc[2]].src = i})

\* C20: every source node yields at most one record; a node inside a group
\* is no top-level element, and is a child only of the group that holds it.
C20_GroupsOwnChildren ==
    spc = "elements" =>
        /\ \A i \in DOMAIN slide_root.sp_tree : RecordsOf(i) <= 1
        /\ \A k \in 1..Len(elements_elem) :
            /\ slide_root.sp_tree[elements_elem[k].src].parent = 0
            /\ \A c \in 1..Len(elements_elem[k].children) :
                slide_root.sp_tree[elements_elem[k].children[c].src].parent
                    = elements_elem[k].src

(***************************************************************************)
(* Properties of extract_geometry (SpecGeom).                              *)
(***************************************************************************)
\* The presentation part gives both canvas dimensions.
ExplicitCanvas ==
    /\ presentation_xml.status = "ok" /\ presentation_xml.has_sldSz
    /\ presentation_xml.cx.given /\ presentation_xml.cy.given
CanvasW == presentation_xml.cx.val
CanvasH == presentation_xml.cy.val

\* |m / 10^6 * dim - raw| in millionths of an EMU, for an emitted value m
\* (millionths) of the raw value raw: the value multiplied back.  An error
\* of 2000 EMU or more is reported as 2000 EMU (the 32-bit range).
RoundTripErr(m, raw, dim) ==
    LET back == MulPair(Abs(m), dim)
        off == back.hi - Abs(raw)
    IN  IF Abs(off) >= 2000 THEN 2000 * Micro
        ELSE Abs(off * Micro + back.lo)

\* The value multiplied back is within 1e-4 relative error of raw.
Within1e4(m, raw, dim) == (RoundTripErr(m, raw, dim) + 99) \div 100 <= Abs(raw)

\* The value multiplied back is within dim / 2000000 of raw: half a unit
\* of the sixth decimal, scaled by the canvas dimension.
WithinHalfUnit(m, raw, dim) == RoundTripErr(m, raw, dim) <= dim \div 2

\* raw is at least dim / 200 in magnitude.
AtLeast200th(raw, dim) == Abs(raw) >= (dim + 199) \div 200

\* Law(m, raw, dim) for the four emitted values of the geometry.
ForEmitted(Law(_, _, _)) ==
    /\ geom.has_pos =>
        /\ Law(geom.x, AttrInt(xfrm_elem.x, 0), CanvasW)
        /\ Law(geom.y, AttrInt(xfrm_elem.y, 0), CanvasH)
    /\ geom.has_size =>
        /\ Law(geom.width, AttrInt(xfrm_elem.cx, 0), CanvasW)
        /\ Law(geom.height, AttrInt(xfrm_elem.cy, 0), CanvasH)

AmendedLaw(m, raw, dim) ==
    /\ WithinHalfUnit(m, raw, dim)
    /\ AtLeast200th(raw, dim) => Within1e4(m, raw, dim)

IdAbsent ==
    \/ rels_part.status # "ok"
    \/ \A k \in 1..Len(rels_part.rels) : rels_part.rels[k].Id # rel_result.id

\* The manifest cannot be read, or no entry of it has the type asked for.
TypeAbsent ==
    \/ rels_part.status # "ok"
    \/ \A k \in 1..Len(rels_part.rels) :
        ~Contains(rels_part.rels[k].Type.val, rel_result.type)

\* C9: a relationship lookup on a manifest that is missing or malformed, or
\* that lacks the id or type asked for, returns None, the empty list or
\* False, and no lookup ever hands an error to its caller.
C9_LookupsNeverRaise ==
    rel_result.done =>
        /\ ~rel_result.raised
        /\ (rel_result.op = "get_relationship_target" /\ IdAbsent)
                => rel_result.target = NoStr
        /\ (rel_result.op = "get_all_relationships" /\ TypeAbsent)
                => rel_result.targets = <<>>
        /\ (rel_result.op = "has_relationship_type" /\ TypeAbsent)
                => ~rel_result.found

\* get_relationship_target has returned None for a manifest that is not XML.
C9_Witness ==
    /\ rel_result.done
    /\ rel_result.op = "get_relationship_target"
    /\ rels_part.status = "malformed"
    /\ ~rel_result.raised /\ rel_result.target = NoStr

(***************************************************************************)
(* Properties of a run of the driver (Spec).                               *)
(***************************************************************************)
\* The run has ended on an archive that could be opened.
RunEnded == pc = "exited" /\ package.opens

\* The slide parts the archive holds, by sorted name.
SlidePartsPresent ==
    Sorted({n \in SlidePartNames : package.slide_parts[n] # "absent"})

\* C6: when no slide part can be discovered, neither through the slide-id
\* list and the manifest nor through the scan by name, the run is fatal: it
\* ends with a non-zero exit status and writes no output tree.
C6_ZeroSlidesFatal ==
    (RunEnded /\ slide_files = <<>> /\ SlidePartsPresent = <<>>)
        => exit_code # 0 /\ ~written

\* The r:id of every p:sldId resolves to a target in the manifest.
EveryIdResolves ==
    \A k \in 1..Len(package.presentation.sld_ids) :
        \E r \in 1..Len(package.pres_rels.rels) :
            /\ package.pres_rels.rels[r].Id = package.presentation.sld_ids[k]
            /\ package.pres_rels.rels[r].Target.given

\* Discovery through the slide-id list can produce the slides.
ListDiscoveryWorks ==
    /\ package.presentation.status = "ok"
    /\ package.presentation.has_sldIdLst
    /\ package.pres_rels.status = "ok"
    /\ EveryIdResolves

\* C7: the slide files are those of the slide-id list, in its order; when
\* the presentation part is missing or unparsable, the list is absent, the
\* manifest is missing or an id is unresolved, they are the slide parts of
\* the archive by sorted name.
C7_DiscoveryFallsBack ==
    (package.opens /\ pc \in {"slides", "exited"}) =>
        IF ListDiscoveryWorks
        THEN slide_files = SlideFilesByIdList(package, package.presentation.sld_ids)
        ELSE slide_files = SlidePartsPresent

\* C8: a slide part that cannot be read or parsed does not end the run: the
\* entries appended so far carry the indices 1, 2, ... of the discovered
\* files in order, and the run ends with one entry for each of the n
\* discovered files, then the statistics over all n, written with status 0.
C8_DecodeFailureNonFatal ==
    /\ Len(slides) <= Len(slide_files)
    /\ \A k \in 1..Len(slides) :
        slides[k].index = k /\ slides[k].id = Stem(slide_files[k])
    /\ RunEnded =>
        /\ Len(slides) = Len(slide_files)
        /\ global_statistics.present
        /\ global_statistics.total_slides = Len(slide_files)
        /\ written /\ exit_code = 0

\* The run has ended with two entries, the first for a part that could not
\* be decoded and the second for one that could.
C8_Witness ==
    /\ RunEnded /\ written
    /\ Len(slides) = 2
    /\ ~slides[1].decoded /\ slides[2].decoded

\* C10: on an archive without the theme part the run completes with exit
\* status 0 and the written tree holds a theme_definition with no
\* color_scheme entry.
C10_MissingThemeNonFatal ==
    /\ (package.opens /\ package.theme.status = "missing"
            /\ pc \in {"discover", "slides", "exited"})
        => theme_definition.present /\ theme_definition.color_scheme = <<>>
    /\ (RunEnded /\ package.theme.status = "missing")
        => exit_code = 0 /\ written

\* The run has ended on an archive that has slides and no theme part.
C10_Witness ==
    /\ RunEnded /\ package.theme.status = "missing"
    /\ Len(slides) > 0 /\ slides[1].decoded
    /\ written /\ theme_definition.present

RECURSIVE CountSum(_)
\* The counts of a histogram added up.
CountSum(histogram) ==
    IF histogram = <<>> THEN 0
    ELSE Head(histogram).count + CountSum(Tail(histogram))

\* C30: total_slides is the number of slide entries of the output, and the
\* counts of the layout-usage histogram and of the semantic-role histogram
\* each add up to total_slides, also when slide parts failed to decode.
C30_HistogramsCoverSlides ==
    global_statistics.present =>
        /\ global_statistics.total_slides = Len(slides)
        /\ CountSum(global_statistics.layout_usage) = global_statistics.total_slides
        /\ CountSum(global_statistics.semantic_role_distribution) =
                global_statistics.total_slides

(***************************************************************************)
(* Properties of extract_slide_dimensions (SpecDims).                      *)
(***************************************************************************)
\* The children of slide_dimensions with the given tag.
DimChildren(tag) ==
    LET Hit(c) == c.tag = tag IN SelectSeq(slide_dimensions.children, Hit)

\* The presentation part holds no slide size that can be used: it has no
\* p:sldSz, or a cx or cy that is no number.
NoUsableSize ==
    \/ dims_part.status # "ok"
    \/ ~dims_part.has_sldSz
    \/ (dims_part.cx.given /\ ~dims_part.cx.numeric)
    \/ (dims_part.cy.given /\ ~dims_part.cy.numeric)

\* C11: when the presentation part is missing, unparsable or lacks a usable
\* slide size, the metadata reports width 9144000 and height 6858000, each
\* exactly once.
C11_DefaultCanvas ==
    (slide_dimensions.done /\ NoUsableSize) =>
        /\ DimChildren("width") = <<DimChild("width", 9144000, 0)>>
        /\ DimChildren("height") = <<DimChild("height", 6858000, 0)>>

\* C29: within one run the canvas width and height the document metadata
\* reports are the pair extract_geometry divides by, whatever the
\* presentation part holds: no part, no slide size, or a slide size of
\* which only one side can be used.
C29_OneCanvasPerRun ==
    run_geometry.done =>
        /\ Len(DimChildren("width")) = 1
        /\ Len(DimChildren("height")) = 1
        /\ DimChildren("width")[1].a = run_geometry.canvas.w
        /\ DimChildren("height")[1].a = run_geometry.canvas.h

\* No number from 2 up divides both a and b.
Coprime(a, b) == \A d \in 2..Min(a, b) : ~(a % d = 0 /\ b % d = 0)

\* C16: for positive w and h the aspect ratio is W:H with W = w / g and
\* H = h / g for the common divisor g, and W and H have no common divisor:
\* the sides divided by their greatest common divisor.
C16_AspectRatioReduced ==
    LET w == IntOf(dims_part.cx, DefaultWidth)
        h == IntOf(dims_part.cy, DefaultHeight)
        ratio == DimChildren("aspect_ratio")
    IN  (/\ slide_dimensions.done
         /\ dims_part.status = "ok" /\ dims_part.has_sldSz
         /\ ~w.raised /\ ~h.raised /\ w.value > 0 /\ h.value > 0)
        => /\ Len(ratio) = 1
           /\ ratio[1].a > 0 /\ ratio[1].b > 0
           /\ w.value % ratio[1].a = 0
           /\ ratio[1].a * (w.value \div ratio[1].a) = w.value
           /\ ratio[1].b * (w.value \div ratio[1].a) = h.value
           /\ Coprime(ratio[1].a, ratio[1].b)

\* The 9144000 x 6858000 canvas has been given the ratio 4:3.
C16_Witness ==
    /\ slide_dimensions.done
    /\ dims_part.cx = Num(9144000) /\ dims_part.cy = Num(6858000)
    /\ DimChildren("aspect_ratio") = <<DimChild("aspect_ratio", 4, 3)>>

(***************************************************************************)
(* Properties of colour resolution (SpecColor).                            *)
(***************************************************************************)
HasForm(tag) == \E i \in 1..Len(color_node) : color_node[i].tag = tag
FirstForm(tag) == color_node[FindForm(color_node, tag)]
\* The node's first system colour carries a last-rendered value.
HasLastRendered ==
    HasForm("sysClr") /\ FirstForm("sysClr").lastClr.given
    /\ FirstForm("sysClr").lastClr.val # <<>>
Returned(hex) == color.present /\ color.hex = hex

\* C12 as stated: literal RGB, else scheme reference, else the system
\* colour's last-rendered value, else preset reference; None exactly when
\* the node holds none of the four forms.
C12_PrecedenceOverForms ==
    color.done =>
        /\ HasForm("srgbClr") =>
                Returned(Text("#") \o Upper(GetOr(FirstForm("srgbClr").val, Text("FFFFFF"))))
        /\ (~HasForm("srgbClr") /\ HasForm("schemeClr")) =>
                Returned(Text("scheme:") \o GetOr(FirstForm("schemeClr").val, Text("dk1")))
        /\ (~HasForm("srgbClr") /\ ~HasForm("schemeClr") /\ HasForm("sysClr")) =>
                Returned(Text("#") \o Upper(FirstForm("sysClr").lastClr.val))
        /\ (~HasForm("srgbClr") /\ ~HasForm("schemeClr") /\ ~HasForm("sysClr")
            /\ HasForm("prstClr")) =>
                Returned(Text("preset:") \o GetOr(FirstForm("prstClr").val, Text("black")))
        /\ ~color.present <=>
                (~HasForm("srgbClr") /\ ~HasForm("schemeClr")
                 /\ ~HasForm("sysClr") /\ ~HasForm("prstClr"))

\* C12: the same precedence where only the node's first sysClr is looked
\* at, whatever later ones carry: it yields its lastClr when that is given
\* and not empty, and otherwise the lookup goes on to the preset; None is
\* returned exactly when the node has no literal, no scheme reference, no
\* preset, and no first sysClr with a non-empty lastClr.
C12_PrecedenceOverValues ==
    color.done =>
        /\ HasForm("srgbClr") =>
                Returned(Text("#") \o Upper(GetOr(FirstForm("srgbClr").val, Text("FFFFFF"))))
        /\ (~HasForm("srgbClr") /\ HasForm("schemeClr")) =>
                Returned(Text("scheme:") \o GetOr(FirstForm("schemeClr").val, Text("dk1")))
        /\ (~HasForm("srgbClr") /\ ~HasForm("schemeClr") /\ HasLastRendered) =>
                Returned(Text("#") \o Upper(FirstForm("sysClr").lastClr.val))
        /\ (~HasForm("srgbClr") /\ ~HasForm("schemeClr") /\ ~HasLastRendered
            /\ HasForm("prstClr")) =>
                Returned(Text("preset:") \o GetOr(FirstForm("prstClr").val, Text("black")))
        /\ ~color.present <=>
                (~HasForm("srgbClr") /\ ~HasForm("schemeClr")
                 /\ ~HasLastRendered /\ ~HasForm("prstClr"))

\* A preset colour stands before a system colour with a last-rendered value
\* in the node, and the last-rendered value was returned.
C12_Witness ==
    /\ color.done
    /\ Len(color_node) = 2
    /\ color_node[1].tag = "prstClr" /\ color_node[2].tag = "sysClr"
    /\ HasLastRendered
    /\ Returned(Text("#0A0B0C"))

RECURSIVE AllHexDigits(_)
AllHexDigits(str) ==
    Len(str) = 0
    \/ (DigitValue(str[1]) >= 0 /\ AllHexDigits(SubSeq(str, 2, Len(str))))
\* The value is '#' and six hexadecimal digits.
SixDigitLiteral(hex) ==
    Len(hex) = 7 /\ StartsWith(hex, Text("#")) /\ AllHexDigits(SubSeq(hex, 2, 7))
Indirect(hex) == StartsWith(hex, Text("scheme:")) \/ StartsWith(hex, Text("preset:"))
\* The value, without its '#', is no hexadecimal number.
NotHex(hex) ==
    LET body == IF StartsWith(hex, Text("#")) THEN SubSeq(hex, 2, Len(hex)) ELSE hex
    IN  Len(body) = 0 \/ ~AllHexDigits(body)
Byte(hex, i) == 16 * DigitValue(hex[i]) + DigitValue(hex[i + 1])

\* C13: the RGB triple is three integers in 0..255; for a literal six-digit
\* hex value it is the three bytes; for an indirect reference and for a value
\* that is no hex number it is (128,128,128).
C13_RgbTriple ==
    rgb.done =>
        /\ \A i \in 1..3 : rgb.value[i] \in 0..255
        /\ SixDigitLiteral(color.hex) =>
                rgb.value = <<Byte(color.hex, 2), Byte(color.hex, 4), Byte(color.hex, 6)>>
        /\ (Indirect(color.hex) \/ NotHex(color.hex)) => rgb.value = <<128, 128, 128>>

(***************************************************************************)
(* Properties of the colour ranking (SpecStats).                           *)
(***************************************************************************)
\* The occurrences of literal colours in the training data.
LiteralOccurrences ==
    LET Literal(hex) == ~Indirect(hex) IN SelectSeq(training_colors, Literal)

\* C14: no scheme:<name> and no preset:<name> value is listed in
\* most_used_colors, and each listed percentage is the colour's count over
\* the number of all literal colour occurrences.
C14_RankingCountsLiteralsOnly ==
    most_used_colors.done =>
        \A k \in 1..Len(most_used_colors.colors) :
            LET entry == most_used_colors.colors[k]
            IN  /\ ~Indirect(entry.hex)
                /\ entry.count = ColorCount(LiteralOccurrences, entry.hex)
                /\ entry.percentage =
                        PercentageTenths(entry.count, Len(LiteralOccurrences))

\* Where a colour is first met in the training data.
FirstMet(hex) ==
    CHOOSE i \in 1..Len(training_colors) :
        /\ training_colors[i] = hex
        /\ \A j \in 1..(i - 1) : training_colors[j] # hex

\* C26: the colour ranking lists at most 10 colours, in non-increasing
\* order of count, and colours of equal count stand in the order they were
\* first encountered.
C26_RankingOrder ==
    most_used_colors.done =>
        LET listed == most_used_colors.colors
        IN  /\ Len(listed) <= 10
            /\ \A j, k \in 1..Len(listed) :
                    j < k =>
                        /\ listed[j].count >= listed[k].count
                        /\ listed[j].count = listed[k].count =>
                                FirstMet(listed[j].hex) < FirstMet(listed[k].hex)

\* A ranking over eleven colours that lists ten of them: the most frequent
\* first, followed by colours of equal count.
C26_Witness ==
    /\ most_used_colors.done
    /\ Len(FirstSeen(AllColors(training_colors))) > 10
    /\ Len(most_used_colors.colors) = 10
    /\ most_used_colors.colors[1].count > most_used_colors.colors[2].count
    /\ most_used_colors.colors[2].count = most_used_colors.colors[3].count

\* C27: color_diversity is min(n, 10) / 10 for the n distinct literal hex
\* colours of the slide, scheme:<name> and preset:<name> references not
\* counted, and lies in [0, 1].
C27_DiversityCountsLiterals ==
    color_diversity.done =>
        LET literals == {LiteralOccurrences[i] : i \in 1..Len(LiteralOccurrences)}
        IN  /\ color_diversity.hundredths = Min(Cardinality(literals), 10) * 10
            /\ color_diversity.hundredths \in 0..100

(***************************************************************************)
(* Properties of the content hashes (SpecHash).                            *)
(***************************************************************************)
RECURSIVE Size(_)
Size(data) == IF data = <<>> THEN 0 ELSE data[1].len + Size(Tail(data))

\* C15: slides whose part bytes are identical carry identical slide_hash
\* values, whatever their index and the order they were hashed in, and the
\* file hash read in chunks is the hash the slide function gives for the
\* whole file's bytes.
C15_HashOfBytesOnly ==
    /\ \A i \in SlideIndexes, j \in SlideIndexes :
            (slide_hashes[i].done /\ slide_hashes[j].done /\ slide_xmls[i] = slide_xmls[j])
                => slide_hashes[i].text = slide_hashes[j].text
    /\ file_hash.done => file_hash.text = compute_slide_hash(pptx_bytes)
    /\ \A i \in SlideIndexes :
            (file_hash.done /\ slide_hashes[i].done /\ slide_xmls[i] = pptx_bytes)
                => slide_hashes[i].text = file_hash.text

\* Two slides with the same bytes are hashed, and so is a file of several
\* chunks whose bytes are those of slide 1.
C15_Witness ==
    /\ slide_hashes[1].done /\ slide_hashes[2].done /\ file_hash.done
    /\ slide_xmls[1] = slide_xmls[2]
    /\ Size(pptx_bytes) > ChunkSize
    /\ pptx_bytes = slide_xmls[1]
    /\ slide_hashes[2].text = file_hash.text

(***************************************************************************)
(* Properties of the element extractors (SpecElement).                     *)
(***************************************************************************)
\* The records made from the child at position i.
RecordsFrom(i) ==
    {k \in 1..Len(element_list.elems) : element_list.elems[k].src = i}

\* C21: every emitted element carries an identifier: the id of the source's
\* p:cNvPr when it has one, otherwise its z-order.
C21_EveryElementIdentified ==
    element_list.done =>
        \A k \in 1..Len(element_list.elems) :
            LET elem == element_list.elems[k]
                source == shape_tree[elem.src]
            IN  /\ elem.id.given
                /\ elem.id.val =
                        (IF source.cnv /\ source.id.given THEN source.id.val
                         ELSE IntStr(elem.z_order))

\* The child is a shape or a picture without its naming element.
Unnamed(child) == child.kind \in {"sp", "pic"} /\ ~child.named
\* The solid fill of the child names no colour that can be resolved.
UnresolvedColor(child) ==
    child.sp_pr /\ child.has_solid
    /\ \A i \in 1..Len(child.solid) :
            child.solid[i].tag \notin {"srgbClr", "schemeClr", "sysClr", "prstClr"}

\* C22: a shape or picture without its naming element yields no element and
\* every other child yields one; a child without a transform is emitted
\* without geometry, an absent offset or extent attribute stands as 0, and
\* an unresolved colour leaves the fill without colour.
C22_ProblemsDropOneElement ==
    element_list.done =>
        \A i \in 1..Len(shape_tree) :
            /\ Unnamed(shape_tree[i]) => RecordsFrom(i) = {}
            /\ ~Unnamed(shape_tree[i]) =>
                /\ Cardinality(RecordsFrom(i)) = 1
                /\ \A k \in RecordsFrom(i) :
                    LET elem == element_list.elems[k]
                    IN  /\ ~shape_tree[i].xfrm.present => ~elem.geometry.present
                        /\ (shape_tree[i].xfrm = PartialXfrm /\ elem.geometry.present) =>
                                (elem.geometry.x = 0 /\ elem.geometry.height = 0)
                        /\ UnresolvedColor(shape_tree[i]) =>
                                (elem.fill.present /\ ~elem.fill.color.given)

\* A shape without naming element comes before a shape that has neither a
\* transform nor a resolved colour, and the second one was emitted.
C22_Witness ==
    /\ element_list.done
    /\ Len(shape_tree) = 2
    /\ shape_tree[1].kind = "sp" /\ ~shape_tree[1].named
    /\ shape_tree[2].kind = "sp" /\ shape_tree[2].named
    /\ ~shape_tree[2].xfrm.present /\ UnresolvedColor(shape_tree[2])
    /\ Len(element_list.elems) = 1
    /\ element_list.elems[1].src = 2

(***************************************************************************)
(* Properties of the text body (SpecText).                                 *)
(***************************************************************************)
\* C23: p paragraphs yield p paragraph records in source order; r >= 1 runs
\* yield r run records in source order; a paragraph without runs yields one
\* run with empty text when it has an a:endParaRPr and no run otherwise.
C23_ParagraphCountFidelity ==
    text_body.done =>
        /\ Len(text_body.paragraphs) = Len(tx_body)
        /\ \A i \in 1..Len(tx_body) :
            LET source == tx_body[i]
                para == text_body.paragraphs[i]
            IN  /\ para.idx = i - 1
                /\ Len(source.runs) >= 1 =>
                    /\ Len(para.runs) = Len(source.runs)
                    /\ \A j \in 1..Len(source.runs) :
                        /\ para.runs[j].idx = j - 1
                        /\ para.runs[j].text = source.runs[j].val
                /\ (Len(source.runs) = 0 /\ source.end_para) =>
                        para.runs = <<[idx |-> 0, text |-> ""]>>
                /\ (Len(source.runs) = 0 /\ ~source.end_para) => para.runs = <<>>

\* A paragraph of two runs that also holds the marker, followed by an empty
\* paragraph with the marker: two records, of two runs and of one empty run.
C23_Witness ==
    /\ text_body.done
    /\ Len(tx_body) = 2
    /\ Len(tx_body[1].runs) = 2 /\ tx_body[1].end_para
    /\ Len(tx_body[2].runs) = 0 /\ tx_body[2].end_para
    /\ Len(text_body.paragraphs) = 2
    /\ Len(text_body.paragraphs[1].runs) = 2
    /\ text_body.paragraphs[2].runs = <<[idx |-> 0, text |-> ""]>>

(***************************************************************************)
(* The whitespace ratio (SpecFeatures).                                    *)
(***************************************************************************)
RECURSIVE CoveredArea(_, _)
\* S: normalized width x height summed over the first k of the slide's
\* elements, those without a sized geometry of their own adding nothing.
CoveredArea(all, k) ==
    IF k = 0 THEN PairZero
    ELSE PairAdd(CoveredArea(all, k - 1),
                 IF all[k].geometry.present /\ all[k].geometry.has_size
                 THEN MulPair(all[k].geometry.width, all[k].geometry.height)
                 ELSE PairZero)

SlideArea == CoveredArea(AllElements(elements), Len(AllElements(elements)))

\* |p - q| for two pairs is at most half a hundredth.
WithinHalfHundredth(p, q) == PairLe(PairAbsDiff(p, q), [hi |-> 5000, lo |-> 0])

\* C28: whitespace_ratio is max(0, 1 - min(1, S)) for the sum S of the
\* normalized width x height of the slide's elements that have a geometry,
\* written to two decimals (so within half a hundredth of it): 1 for a
\* slide without elements, 0 once the covered area reaches 1.
C28_WhitespaceRatio ==
    computed.present =>
        /\ WithinHalfHundredth(
                [hi |-> computed.whitespace_ratio * 10000, lo |-> 0],
                IF PairLe(PairOne, SlideArea) THEN PairZero
                ELSE PairSub(PairOne, SlideArea))
        /\ elements = <<>> => computed.whitespace_ratio = 100
        /\ PairLe(PairOne, SlideArea) => computed.whitespace_ratio = 0

\* Two elements that together cover more than the canvas.
C28_Witness ==
    /\ computed.present
    /\ Len(elements) = 2
    /\ elements[1].geometry.has_size /\ elements[2].geometry.has_size
    /\ ~PairLe(PairOne, MulPair(elements[1].geometry.width, elements[1].geometry.height))
    /\ PairLe(PairOne, SlideArea)
    /\ computed.whitespace_ratio = 0

(***************************************************************************)
(* Properties of the referred parts (SpecParts).                           *)
(***************************************************************************)
\* The slide's relationship manifest, read where the package format puts it.
SlideManifest == ReadPart(zip_file, PartRelsName(slide_part_file))

\* C24: the has-notes flag of a slide is true exactly when the slide's
\* relationship manifest, at the location the package format gives it, lists
\* a relationship whose type contains 'notesSlide'; a missing manifest and a
\* manifest without such an entry both give false.
C24_HasNotesFromManifest ==
    slide_metadata.done =>
        (slide_metadata.has_notes <=>
            /\ SlideManifest.status = "ok"
            /\ \E k \in 1..Len(SlideManifest.rels) :
                Contains(SlideManifest.rels[k].Type.val, "notesSlide"))

\* A relationship target resolved against the directory of the part that
\* owns the manifest: each leading "../" climbs one directory.
RECURSIVE ResolveTarget(_, _)
ResolveTarget(dir, target) ==
    IF StartsWith(target, "../")
    THEN LET up == SubSeq(dir, 1, Len(dir) - 1)
         IN  ResolveTarget(SubSeq(up, 1, LastIndexOf(up, "/")),
                           SubSeq(target, 4, Len(target)))
    ELSE dir \o target

\* The chart part the frame's relationship id leads to, when the manifest
\* lists the id with a target that names a part of the archive.
ListedChart ==
    LET Hit(rel) == rel.Id = chart_frame /\ rel.Target.given
        hits == SelectSeq(SlideManifest.rels, Hit)
        dir == SubSeq(slide_part_file, 1, LastIndexOf(slide_part_file, "/"))
    IN  IF chart_frame.given /\ SlideManifest.status = "ok" /\ Len(hits) > 0
        THEN ReadPart(zip_file, ResolveTarget(dir, hits[1].Target.val))
        ELSE MissingPart

\* The first child of the plot area that is a plot type, NoStr without one.
FirstPlotType(part) ==
    LET hits == {k \in 1..Len(part.plot_area) :
                    /\ StartsWith(part.plot_area[k], ChartTag(""))
                    /\ EndsWith(part.plot_area[k], "Chart")}
        k1 == CHOOSE k \in hits : \A j \in hits : k <= j
    IN  IF ~part.has_plot_area \/ hits = {} THEN NoStr
        ELSE Str(SubSeq(part.plot_area[k1], Len(ChartTag("")) + 1,
                        Len(part.plot_area[k1])))

\* C25: a chart frame whose relationship id the slide's manifest lists with
\* a target that, taken relative to the slide part, names a chart part of
\* the archive gets a chart definition whose type tag is the first
\* plot-type child of the plot area.
C25_ChartDefinitionResolved ==
    (chart_element.done /\ ListedChart.status = "ok") =>
        /\ chart_element.chart_definition.present
        /\ chart_element.chart_definition.chart_type = FirstPlotType(ListedChart)

(***************************************************************************)
(* Specifications.                                                         *)
(***************************************************************************)
IdleSlide ==
    /\ slide_root = NoSpTree
    /\ index = 0 /\ semantic_role = "" /\ elements_elem = <<>> /\ spc = "idle"

IdleCore == IdleSlide /\ IdleGeom /\ IdleFeatures /\ IdleRels /\ IdlePipeline
IdleUnits ==
    IdleDims /\ IdleColor /\ IdleStats /\ IdleHash /\ IdleElement /\ IdleText
        /\ IdleParts

SpecGeomInit ==
    InitGeom /\ IdleSlide /\ IdleFeatures /\ IdleRels /\ IdlePipeline /\ IdleUnits
NextGeom == ExtractGeometry
SpecGeom == SpecGeomInit /\ [][NextGeom]_vars

SpecSlideInit ==
    InitSlide /\ IdleGeom /\ IdleFeatures /\ IdleRels /\ IdlePipeline /\ IdleUnits
NextSlide == InferSlideRole \/ ExtractSlideElements
SpecSlide == SpecSlideInit /\ [][NextSlide]_vars

SpecFeaturesInit ==
    InitFeatures /\ IdleSlide /\ IdleGeom /\ IdleRels /\ IdlePipeline /\ IdleUnits
NextFeatures == ComputeSlideFeatures
SpecFeatures == SpecFeaturesInit /\ [][NextFeatures]_vars

SpecRelsInit ==
    InitRels /\ IdleSlide /\ IdleGeom /\ IdleFeatures /\ IdlePipeline /\ IdleUnits
NextRels == GetRelationshipTarget \/ GetAllRelationships \/ HasRelationshipType
SpecRels == SpecRelsInit /\ [][NextRels]_vars

SpecInit == Init /\ IdleSlide /\ IdleGeom /\ IdleFeatures /\ IdleRels /\ IdleUnits
Next ==
    \/ OpenArchive
    \/ ExtractThemeDefinition
    \/ GetSlideFiles
    \/ ExtractSlideFeatures
    \/ WriteOutput
Spec == SpecInit /\ [][Next]_vars

SpecDimsInit == InitDims /\ IdleCore /\ IdleColor /\ IdleStats /\ IdleHash /\ IdleElement /\ IdleText
        /\ IdleParts
NextDims == ExtractSlideDimensions \/ ExtractRunGeometry
SpecDims == SpecDimsInit /\ [][NextDims]_vars

SpecColorInit == InitColor /\ IdleCore /\ IdleDims /\ IdleStats /\ IdleHash /\ IdleElement /\ IdleText
        /\ IdleParts
NextColor == ExtractColorValue \/ HexToRgb
SpecColor == SpecColorInit /\ [][NextColor]_vars

SpecStatsInit == InitStats /\ IdleCore /\ IdleDims /\ IdleColor /\ IdleHash /\ IdleElement /\ IdleText
        /\ IdleParts
NextStats == ComputeGlobalStatistics \/ ComputeColorDiversity
SpecStats == SpecStatsInit /\ [][NextStats]_vars

SpecHashInit == InitHash /\ IdleCore /\ IdleDims /\ IdleColor /\ IdleStats /\ IdleElement /\ IdleText
        /\ IdleParts
NextHash == ComputeFileHash \/ ComputeSlideHash
SpecHash == SpecHashInit /\ [][NextHash]_vars

SpecElementInit ==
    InitElement /\ IdleCore /\ IdleDims /\ IdleColor /\ IdleStats /\ IdleHash
        /\ IdleText /\ IdleParts
NextElement == ExtractElements
SpecElement == SpecElementInit /\ [][NextElement]_vars

SpecTextInit ==
    InitText /\ IdleCore /\ IdleDims /\ IdleColor /\ IdleStats /\ IdleHash
        /\ IdleElement /\ IdleParts
NextText == ExtractTextBody
SpecText == SpecTextInit /\ [][NextText]_vars

SpecPartsInit ==
    InitParts /\ IdleCore /\ IdleDims /\ IdleColor /\ IdleStats /\ IdleHash
        /\ IdleElement /\ IdleText
NextParts == ExtractSlideMetadata \/ ExtractChartElement
SpecParts == SpecPartsInit /\ [][NextParts]_vars

====
